---- MODULE Spec2Model ----
(***************************************************************************)
(* Model of the analysis core of mold-analyzer (src/core/analysis.py):     *)
(* draft-angle analysis of faces, parting-line estimation and undercut     *)
(* detection.                                                              *)
(*                                                                         *)
(* Numbers.  The program computes in IEEE-754 binary64.  The model keeps   *)
(* the same operations on binary fixed-point integers:                     *)
(*   - a unit-vector component and a dot product are integers in units of  *)
(*     2^-10 (NormalOne = 1.0);                                            *)
(*   - an angle is an integer in units of 2^-10 degree (AngleOne = 1       *)
(*     degree);                                                            *)
(*   - a coordinate is an integer in units of 1/40 mm (CoordOne = 1 mm).   *)
(* A floating-point result keeps MantissaBits significant bits (53 in the  *)
(* program) and is rounded to nearest, ties to even, by RoundRat: sums and *)
(* quotients of angles and of normal components are rounded as the         *)
(* program rounds them.  Comparisons with decimal thresholds (0.1, 0.05,   *)
(* 0.5, 0.01) are cross-multiplied, so they are exact.                     *)
(***************************************************************************)
EXTENDS Integers, Sequences, FiniteSets, TLC

VARIABLES
    pc,            \* position of the run: which call has returned
    opening_dir,   \* mold opening direction (gp_Dir), a principal axis
    n_samples,     \* analyze_face's n_samples argument (0: adaptive)
    faces,         \* the faces handed to the analysis, in order
    face_results,  \* analyze_face / analyze_all_faces output
    parting_z,     \* detect_undercuts' parting_z argument
    undercuts,     \* detect_undercuts output
    shape,         \* the solid as the kernel sees it: bounding box and edges
    parting_info,  \* estimate_parting_line output
    thickness_data,\* analyze_wall_thickness output
    axis_index,    \* the slide planner's axis_index argument (0, 1, 2)
    groups,        \* group_undercuts output
    slides,        \* analyze_slide_cores output
    mold_layout,   \* generate_mold_layout output
    input_file,    \* what main() finds at args.input
    summary,       \* summarize output
    error          \* the exception or exit that ended main(), if any

vars == <<pc, opening_dir, n_samples, faces, face_results, parting_z,
          undercuts, shape, parting_info, thickness_data, axis_index,
          groups, slides, mold_layout, input_file, summary, error>>

\* the variables of the wall-thickness analysis, of the slide planner and of
\* main()
laterVars == <<thickness_data, axis_index, groups, slides, mold_layout,
               input_file, summary, error>>

\* the functions are called directly, not from main()
NotFromMain ==
    /\ input_file = <<>>
    /\ summary = <<>>
    /\ error = "none"

\* neither the wall-thickness analysis nor the slide planner has run
NoLaterStage ==
    /\ thickness_data = <<>>
    /\ axis_index = 2
    /\ groups = <<>>
    /\ slides = <<>>
    /\ mold_layout = <<>>
    /\ NotFromMain

\* ------------------------------------------------------------------ bounds

\* significant bits of a floating-point value (the program has 53)
MantissaBits == 13
\* largest explicit n_samples handed to analyze_face
MaxGrid == 2
\* length of a face's U parameter range; the normal changes at a whole u
UMax == 4
\* most faces in a face list of several faces
MaxFaces == 2

\* ------------------------------------------------------------ fixed point

NormalOne == 2^10
AngleOne == 2^10

Abs(x) == IF x < 0 THEN -x ELSE x
Min2(a, b) == IF a <= b THEN a ELSE b
Max2(a, b) == IF a >= b THEN a ELSE b

RECURSIVE BitLen(_)
BitLen(x) == IF x = 0 THEN 0 ELSE 1 + BitLen(x \div 2)

\* num/den (den > 0) rounded to MantissaBits significant bits, nearest, ties
\* to even; below 2^MantissaBits units the grid is the unit grid
RoundRat(num, den) ==
    LET a == Abs(num)
        L == BitLen(a \div den)
        s == IF L > MantissaBits THEN 2^(L - MantissaBits) ELSE 1
        d == den * s
        f == a \div d
        r == a % d
        m == IF 2 * r > d \/ (2 * r = d /\ f % 2 = 1) THEN f + 1 ELSE f
    IN  IF num < 0 THEN -(m * s) ELSE m * s

\* a + b in floating point
FAdd(a, b) == RoundRat(a + b, 1)

\* acc + xs[lo] + ... + xs[hi], added from left to right, each addition
\* rounded (the range is halved only to keep the evaluation shallow)
RECURSIVE FSumRange(_, _, _, _)
FSumRange(xs, lo, hi, acc) ==
    IF lo > hi THEN acc
    ELSE IF lo = hi THEN FAdd(acc, xs[lo])
    ELSE LET mid == (lo + hi) \div 2
             left == FSumRange(xs, lo, mid, acc)
         IN  IF left \in Int THEN FSumRange(xs, mid + 1, hi, left) ELSE left

\* Python's sum(): 0 + xs[1] + xs[2] + ...
FSum(xs) == FSumRange(xs, 1, Len(xs), 0)

\* a / n in floating point (n a positive count)
FDiv(a, n) == RoundRat(a, n)

SeqMin(xs) ==
    CHOOSE x \in {xs[k] : k \in 1..Len(xs)} :
        \A k \in 1..Len(xs) : x <= xs[k]

SeqMax(xs) ==
    CHOOSE x \in {xs[k] : k \in 1..Len(xs)} :
        \A k \in 1..Len(xs) : x >= xs[k]

\* math.degrees(math.asin(d / 2^10)) in units of 2^-10 degree, d = 0..2^10
AsinTable ==
  <<
     0, 57, 115, 172, 229, 286, 344, 401, 458, 516, 573, 630,
     688, 745, 802, 859, 917, 974, 1031, 1089, 1146, 1203, 1261, 1318,
     1375, 1433, 1490, 1547, 1604, 1662, 1719, 1776, 1834, 1891, 1948, 2006,
     2063, 2120, 2178, 2235, 2292, 2350, 2407, 2464, 2522, 2579, 2636, 2694,
     2751, 2809, 2866, 2923, 2981, 3038, 3095, 3153, 3210, 3268, 3325, 3382,
     3440, 3497, 3555, 3612, 3669, 3727, 3784, 3842, 3899, 3956, 4014, 4071,
     4129, 4186, 4244, 4301, 4358, 4416, 4473, 4531, 4588, 4646, 4703, 4761,
     4818, 4876, 4933, 4991, 5048, 5106, 5163, 5221, 5278, 5336, 5393, 5451,
     5508, 5566, 5624, 5681, 5739, 5796, 5854, 5911, 5969, 6027, 6084, 6142,
     6199, 6257, 6315, 6372, 6430, 6488, 6545, 6603, 6661, 6718, 6776, 6834,
     6891, 6949, 7007, 7064, 7122, 7180, 7238, 7295, 7353, 7411, 7469, 7526,
     7584, 7642, 7700, 7758, 7815, 7873, 7931, 7989, 8047, 8104, 8162, 8220,
     8278, 8336, 8394, 8452, 8510, 8567, 8625, 8683, 8741, 8799, 8857, 8915,
     8973, 9031, 9089, 9147, 9205, 9263, 9321, 9379, 9437, 9495, 9553, 9611,
     9669, 9727, 9786, 9844, 9902, 9960, 10018, 10076, 10134, 10193, 10251, 10309,
     10367, 10425, 10484, 10542, 10600, 10658, 10717, 10775, 10833, 10891, 10950, 11008,
     11066, 11125, 11183, 11241, 11300, 11358, 11416, 11475, 11533, 11592, 11650, 11709,
     11767, 11826, 11884, 11943, 12001, 12060, 12118, 12177, 12235, 12294, 12352, 12411,
     12470, 12528, 12587, 12645, 12704, 12763, 12821, 12880, 12939, 12998, 13056, 13115,
     13174, 13233, 13291, 13350, 13409, 13468, 13527, 13586, 13644, 13703, 13762, 13821,
     13880, 13939, 13998, 14057, 14116, 14175, 14234, 14293, 14352, 14411, 14470, 14529,
     14588, 14648, 14707, 14766, 14825, 14884, 14943, 15003, 15062, 15121, 15180, 15240,
     15299, 15358, 15418, 15477, 15536, 15596, 15655, 15714, 15774, 15833, 15893, 15952,
     16012, 16071, 16131, 16190, 16250, 16309, 16369, 16429, 16488, 16548, 16607, 16667,
     16727, 16787, 16846, 16906, 16966, 17026, 17085, 17145, 17205, 17265, 17325, 17385,
     17445, 17505, 17565, 17624, 17684, 17744, 17805, 17865, 17925, 17985, 18045, 18105,
     18165, 18225, 18285, 18346, 18406, 18466, 18526, 18587, 18647, 18707, 18768, 18828,
     18888, 18949, 19009, 19070, 19130, 19191, 19251, 19312, 19372, 19433, 19493, 19554,
     19615, 19675, 19736, 19797, 19858, 19918, 19979, 20040, 20101, 20162, 20222, 20283,
     20344, 20405, 20466, 20527, 20588, 20649, 20710, 20771, 20832, 20893, 20955, 21016,
     21077, 21138, 21199, 21261, 21322, 21383, 21445, 21506, 21567, 21629, 21690, 21752,
     21813, 21875, 21936, 21998, 22059, 22121, 22183, 22244, 22306, 22368, 22429, 22491,
     22553, 22615, 22677, 22738, 22800, 22862, 22924, 22986, 23048, 23110, 23172, 23234,
     23296, 23359, 23421, 23483, 23545, 23607, 23670, 23732, 23794, 23857, 23919, 23982,
     24044, 24107, 24169, 24232, 24294, 24357, 24419, 24482, 24545, 24607, 24670, 24733,
     24796, 24859, 24922, 24984, 25047, 25110, 25173, 25236, 25299, 25362, 25426, 25489,
     25552, 25615, 25678, 25742, 25805, 25868, 25932, 25995, 26058, 26122, 26185, 26249,
     26313, 26376, 26440, 26503, 26567, 26631, 26695, 26758, 26822, 26886, 26950, 27014,
     27078, 27142, 27206, 27270, 27334, 27398, 27463, 27527, 27591, 27655, 27720, 27784,
     27848, 27913, 27977, 28042, 28106, 28171, 28236, 28300, 28365, 28430, 28494, 28559,
     28624, 28689, 28754, 28819, 28884, 28949, 29014, 29079, 29144, 29209, 29275, 29340,
     29405, 29471, 29536, 29601, 29667, 29732, 29798, 29864, 29929, 29995, 30061, 30126,
     30192, 30258, 30324, 30390, 30456, 30522, 30588, 30654, 30720, 30786, 30852, 30919,
     30985, 31051, 31118, 31184, 31251, 31317, 31384, 31450, 31517, 31584, 31651, 31717,
     31784, 31851, 31918, 31985, 32052, 32119, 32186, 32253, 32321, 32388, 32455, 32523,
     32590, 32657, 32725, 32793, 32860, 32928, 32995, 33063, 33131, 33199, 33267, 33335,
     33403, 33471, 33539, 33607, 33675, 33743, 33812, 33880, 33949, 34017, 34086, 34154,
     34223, 34291, 34360, 34429, 34498, 34567, 34636, 34705, 34774, 34843, 34912, 34981,
     35050, 35120, 35189, 35259, 35328, 35398, 35467, 35537, 35607, 35676, 35746, 35816,
     35886, 35956, 36026, 36096, 36166, 36237, 36307, 36377, 36448, 36518, 36589, 36659,
     36730, 36801, 36872, 36943, 37013, 37084, 37155, 37227, 37298, 37369, 37440, 37512,
     37583, 37655, 37726, 37798, 37869, 37941, 38013, 38085, 38157, 38229, 38301, 38373,
     38445, 38518, 38590, 38662, 38735, 38808, 38880, 38953, 39026, 39099, 39171, 39244,
     39318, 39391, 39464, 39537, 39611, 39684, 39758, 39831, 39905, 39978, 40052, 40126,
     40200, 40274, 40348, 40422, 40497, 40571, 40645, 40720, 40795, 40869, 40944, 41019,
     41094, 41169, 41244, 41319, 41394, 41469, 41545, 41620, 41696, 41771, 41847, 41923,
     41999, 42075, 42151, 42227, 42303, 42380, 42456, 42533, 42609, 42686, 42763, 42839,
     42916, 42993, 43071, 43148, 43225, 43302, 43380, 43458, 43535, 43613, 43691, 43769,
     43847, 43925, 44003, 44082, 44160, 44239, 44317, 44396, 44475, 44554, 44633, 44712,
     44791, 44871, 44950, 45030, 45109, 45189, 45269, 45349, 45429, 45509, 45590, 45670,
     45751, 45831, 45912, 45993, 46074, 46155, 46236, 46317, 46399, 46480, 46562, 46644,
     46726, 46808, 46890, 46972, 47054, 47137, 47219, 47302, 47385, 47468, 47551, 47634,
     47717, 47801, 47884, 47968, 48052, 48136, 48220, 48304, 48389, 48473, 48558, 48642,
     48727, 48812, 48897, 48983, 49068, 49154, 49239, 49325, 49411, 49497, 49584, 49670,
     49757, 49843, 49930, 50017, 50104, 50191, 50279, 50367, 50454, 50542, 50630, 50718,
     50807, 50895, 50984, 51073, 51162, 51251, 51340, 51430, 51519, 51609, 51699, 51789,
     51880, 51970, 52061, 52151, 52242, 52334, 52425, 52516, 52608, 52700, 52792, 52884,
     52977, 53069, 53162, 53255, 53348, 53442, 53535, 53629, 53723, 53817, 53911, 54006,
     54101, 54196, 54291, 54386, 54482, 54577, 54673, 54770, 54866, 54963, 55059, 55157,
     55254, 55351, 55449, 55547, 55645, 55743, 55842, 55941, 56040, 56139, 56239, 56339,
     56439, 56539, 56640, 56741, 56842, 56943, 57044, 57146, 57248, 57351, 57453, 57556,
     57659, 57763, 57866, 57970, 58075, 58179, 58284, 58389, 58495, 58600, 58706, 58813,
     58919, 59026, 59133, 59241, 59349, 59457, 59565, 59674, 59783, 59893, 60002, 60113,
     60223, 60334, 60445, 60557, 60668, 60781, 60893, 61006, 61120, 61233, 61347, 61462,
     61577, 61692, 61808, 61924, 62040, 62157, 62274, 62392, 62510, 62629, 62748, 62867,
     62987, 63107, 63228, 63349, 63471, 63593, 63716, 63839, 63963, 64087, 64212, 64337,
     64463, 64589, 64716, 64843, 64971, 65100, 65229, 65358, 65488, 65619, 65750, 65882,
     66015, 66148, 66282, 66417, 66552, 66688, 66824, 66962, 67100, 67238, 67378, 67518,
     67659, 67800, 67943, 68086, 68230, 68375, 68521, 68667, 68815, 68963, 69112, 69262,
     69413, 69565, 69718, 69872, 70027, 70183, 70341, 70499, 70658, 70819, 70980, 71143,
     71307, 71472, 71639, 71807, 71976, 72147, 72319, 72492, 72667, 72843, 73021, 73201,
     73382, 73565, 73750, 73936, 74125, 74315, 74508, 74702, 74898, 75097, 75298, 75501,
     75707, 75915, 76126, 76340, 76557, 76776, 76999, 77225, 77454, 77687, 77923, 78164,
     78408, 78657, 78911, 79169, 79432, 79701, 79976, 80257, 80545, 80840, 81143, 81454,
     81775, 82105, 82447, 82801, 83169, 83553, 83954, 84376, 84821, 85296, 85806, 86360,
     86972, 87668, 88492, 89567, 92160
  >>

\* math.degrees(math.asin(x)): x in units of 2^-10, 0 <= x <= 1
AsinDegrees(x) == RoundRat(AsinTable[x + 1], 1)

\* ------------------------------------------------- geometry kernel (OCP)

\* opening directions: main() builds gp_Dir(1,0,0), (0,1,0) or (0,0,1)
AxisDirs == {<<1, 0, 0>>, <<0, 1, 0>>, <<0, 0, 1>>}

\* magnitude below which a sampled normal is degenerate (1e-10); the raw
\* vectors of the kernel are whole multiples of it
NormalTol == 1

\* raw (not normalized) normal vectors BRepGProp_Face.Normal may return
ZeroVec == <<0, 0, 0>>
RawNormals ==
    { ZeroVec,
      <<0, 0, 2>>, <<0, 0, -3>>, <<5, 0, 0>>, <<0, -1, 0>>,
      <<2, 0, 2048>>, <<3, 0, 1024>>, <<20, 0, 1024>>, <<-20, 0, 1024>>,
      <<60, 0, 1022>>, <<3, 0, 4>>, <<-3, 0, -4>>, <<4, 0, -3>>,
      <<4, 0, 3>>,
      <<13, 0, 84>> }

RECURSIVE SqrtIter(_, _, _)
SqrtIter(x, lo, hi) ==
    IF lo >= hi THEN lo
    ELSE LET mid == (lo + hi + 1) \div 2
         IN  IF mid * mid <= x THEN SqrtIter(x, mid, hi)
             ELSE SqrtIter(x, lo, mid - 1)

\* square root rounded to the nearest integer
Sqrt(x) ==
    LET r == SqrtIter(x, 0, 2^15)
    IN  IF x - r * r > r THEN r + 1 ELSE r

\* gp_Vec.Magnitude()
Magnitude(v) == Sqrt(v[1] * v[1] + v[2] * v[2] + v[3] * v[3])

\* gp_Vec.Normalize(): each component divided by the magnitude
Normalize(v) ==
    LET m == Magnitude(v)
    IN  <<RoundRat(v[1] * NormalOne, m), RoundRat(v[2] * NormalOne, m),
          RoundRat(v[3] * NormalOne, m)>>

NormalizeTable == [v \in RawNormals \ {ZeroVec} |-> Normalize(v)]
MagnitudeTable == [v \in RawNormals |-> Magnitude(v)]

\* GeomAbs surface types the kernel may report
GeomAbs_Plane == "GeomAbs_Plane"
GeomAbs_Cylinder == "GeomAbs_Cylinder"
GeomAbs_BSplineSurface == "GeomAbs_BSplineSurface"
GeomAbs_BezierSurface == "GeomAbs_BezierSurface"
GeomAbs_OffsetSurface == "GeomAbs_OffsetSurface"

\* A face as the kernel answers for it: surface type, area and centroid
\* (GProp_GProps), the U parameter range (BRepAdaptor_Surface) and the raw
\* normal at a parameter (BRepGProp_Face.Normal).  The normal field of a
\* modelled face does not depend on v and takes one value below u_break and
\* one from u_break on.
FaceNormal(face, u_num, u_den) ==
    IF u_num < face.u_break * u_den THEN face.n_lo ELSE face.n_hi

\* u = u_min + (u_max - u_min) * (i + 0.5) / n_samples, as the fraction
\* <<numerator, denominator>>
SampleU(face, i, n) ==
    <<face.u_min * 2 * n + (face.u_max - face.u_min) * (2 * i + 1), 2 * n>>

\* ---------------------------------------------------------- analyze_face

\* the display names by their ASCII part, for the surface types the model
\* draws faces from; every other type falls to the default of the lookup
SURFACE_TYPE_NAMES ==
    [t \in {GeomAbs_Plane, GeomAbs_Cylinder, GeomAbs_BSplineSurface,
            GeomAbs_BezierSurface} |->
        CASE t = GeomAbs_Plane -> "Plane"
          [] t = GeomAbs_Cylinder -> "Cylinder"
          [] t = GeomAbs_BSplineSurface -> "B-Spline"
          [] t = GeomAbs_BezierSurface -> "Bezier"]

surface_type_name(surface_type) ==
    IF surface_type \in DOMAIN SURFACE_TYPE_NAMES
    THEN SURFACE_TYPE_NAMES[surface_type] ELSE "Other"

\* adaptive sampling: the grid size analyze_face works with
GridSize(surface_type, n) ==
    IF n <= 0
    THEN IF surface_type = GeomAbs_Plane THEN 1
         ELSE IF surface_type \in {GeomAbs_BSplineSurface, GeomAbs_BezierSurface}
              THEN 10
              ELSE 5
    ELSE n

\* the raw normal of every sample of the n x n grid, in loop order (i outer,
\* j inner)
RawSamples(face, n) ==
    [k \in 1..(n * n) |->
        LET u == SampleU(face, (k - 1) \div n, n)
        IN  FaceNormal(face, u[1], u[2])]

IsValidSample(v) == ~(MagnitudeTable[v] < NormalTol)

\* normals: the normalized normal of every sample that is not skipped
SampledNormals(face, n) ==
    LET valid == SelectSeq(RawSamples(face, n), IsValidSample)
    IN  [k \in 1..Len(valid) |-> NormalizeTable[valid[k]]]

\* normal . opening direction, sign kept
Dot(normal, dir) ==
    normal[1] * dir[1] + normal[2] * dir[2] + normal[3] * dir[3]

RawDots(normals, dir) == [k \in 1..Len(normals) |-> Dot(normals[k], dir)]

\* arcsin(dot) without the abs(): negative for a normal facing away
DraftDegSigned(dot) ==
    IF dot < 0 THEN -AsinDegrees(Min2(-dot, NormalOne))
    ELSE AsinDegrees(Min2(dot, NormalOne))

\* draft angle = arcsin(|dot|) in degrees, |dot| clamped to 1
DraftDeg(dot) == AsinDegrees(Min2(Abs(dot), NormalOne))

DraftAngles(raw_dots) == [k \in 1..Len(raw_dots) |-> DraftDeg(raw_dots[k])]

\* the good test before the horizontal test
CategoryGoodFirst(min_draft, avg_draft) ==
    IF min_draft >= 3 * AngleOne THEN "good"
    ELSE IF avg_draft > 85 * AngleOne THEN "horizontal"
    ELSE IF min_draft >= 1 * AngleOne THEN "marginal"
    ELSE IF 10 * min_draft >= AngleOne THEN "insufficient"
    ELSE "zero"

Category(min_draft, avg_draft) ==
    IF avg_draft > 85 * AngleOne THEN "horizontal"
    ELSE IF min_draft >= 3 * AngleOne THEN "good"
    ELSE IF min_draft >= 1 * AngleOne THEN "marginal"
    ELSE IF 10 * min_draft >= AngleOne THEN "insufficient"
    ELSE "zero"

\* the flag without the test of the average draft
MixedNormalsAnyDraft(raw_dots, avg_draft) ==
    LET has_positive == \E k \in 1..Len(raw_dots) : 20 * raw_dots[k] > NormalOne
        has_negative == \E k \in 1..Len(raw_dots) : 20 * raw_dots[k] < -NormalOne
    IN  has_positive /\ has_negative

\* normal directions are mixed: a dot above 0.05 and one below -0.05
MixedNormals(raw_dots, avg_draft) ==
    LET has_positive == \E k \in 1..Len(raw_dots) : 20 * raw_dots[k] > NormalOne
        has_negative == \E k \in 1..Len(raw_dots) : 20 * raw_dots[k] < -NormalOne
    IN  has_positive /\ has_negative /\ avg_draft < 45 * AngleOne

AvgDraft(draft_angles) == FDiv(FSum(draft_angles), Len(draft_angles))

\* the result of a face without a valid sample, filed as a face of no draft
UnknownResultAsZero(face) ==
    [surface_type |-> surface_type_name(face.surface_type),
     area |-> face.area,
     min_draft |-> 0, max_draft |-> 0, avg_draft |-> 0,
     draft_category |-> "zero",
     is_undercut |-> FALSE,
     center |-> face.center,
     normals |-> <<>>]

\* if not draft_angles: the result of a face without a valid sample
UnknownResult(face) ==
    [surface_type |-> surface_type_name(face.surface_type),
     area |-> face.area,
     min_draft |-> 0, max_draft |-> 0, avg_draft |-> 0,
     draft_category |-> "unknown",
     is_undercut |-> FALSE,
     center |-> face.center,
     normals |-> <<>>]

analyze_face(face, dir, n_arg) ==
    LET n == GridSize(face.surface_type, n_arg)
        normals == SampledNormals(face, n)
        raw_dots == RawDots(normals, dir)
        draft_angles == DraftAngles(raw_dots)
    IN  IF Len(draft_angles) = 0
        THEN UnknownResult(face)
        ELSE LET min_draft == SeqMin(draft_angles)
                 max_draft == SeqMax(draft_angles)
                 avg_draft == AvgDraft(draft_angles)
             IN  [surface_type |-> surface_type_name(face.surface_type),
                  area |-> face.area,
                  min_draft |-> min_draft, max_draft |-> max_draft,
                  avg_draft |-> avg_draft,
                  draft_category |-> Category(min_draft, avg_draft),
                  is_undercut |-> MixedNormals(raw_dots, avg_draft),
                  center |-> face.center,
                  normals |-> normals]

\* -------------------------------------- specification: one analyze_face call

SurfaceTypes ==
    {GeomAbs_Plane, GeomAbs_Cylinder, GeomAbs_BSplineSurface,
     GeomAbs_OffsetSurface}

DeepFaces ==
    [surface_type : SurfaceTypes, area : {50}, center : {<<0, 0, 0>>},
     u_min : {0}, u_max : {UMax}, u_break : 0..UMax,
     n_lo : RawNormals, n_hi : RawNormals]

\* the calls of this specification take no shape
NoShape == [box |-> <<0, 0, 0, 0, 0, 0>>, faces |-> <<>>, edges |-> <<>>]

InitFace ==
    /\ pc = "start"
    /\ opening_dir \in AxisDirs
    /\ n_samples \in 0..MaxGrid
    /\ faces \in {<<f>> : f \in DeepFaces}
    /\ face_results = <<>>
    /\ parting_z = 0
    /\ undercuts = <<>>
    /\ shape = NoShape
    /\ parting_info = <<>>
    /\ NoLaterStage

CallAnalyzeFace ==
    /\ pc = "start"
    /\ face_results' = <<analyze_face(faces[1], opening_dir, n_samples)>>
    /\ pc' = "done"
    /\ UNCHANGED <<opening_dir, n_samples, faces, parting_z, undercuts,
                   shape, parting_info>>
    /\ UNCHANGED laterVars

NextFace == CallAnalyzeFace

SpecFace == InitFace /\ [][NextFace]_vars

\* ----------------------------------------------------- analyze_all_faces

\* Python's None where a direction is expected
None == <<>>

\* if opening_dir is None: opening_dir = gp_Dir(0, 0, 1)
DefaultDir(dir) == IF dir = None THEN <<0, 0, 1>> ELSE dir

\* result["face_id"] = i, the 0-based position in the list
WithFaceId(result, i) == [face_id |-> i] @@ result

\* the faces without a valid sample left out of the list
analyze_all_faces_dropping(fs, dir) ==
    SelectSeq([k \in 1..Len(fs) |->
                  WithFaceId(analyze_face(fs[k], DefaultDir(dir), 0), k - 1)],
              LAMBDA r : r.draft_category # "unknown")

analyze_all_faces(fs, dir) ==
    [k \in 1..Len(fs) |->
        WithFaceId(analyze_face(fs[k], DefaultDir(dir), 0), k - 1)]

\* ------------------------------------------------------ detect_undercuts

\* avg_nz = sum(n[2] for n in normals) / len(normals)
AvgNz(normals) ==
    FDiv(FSum([k \in 1..Len(normals) |-> normals[k][3]]), Len(normals))

\* f"{avg_draft:.1f}" for the values the draft-shortage rule lets through
\* (0 <= avg_draft < 0.5 degree): tenths of a degree, rounded half to even
FormatTenths(avg_draft) ==
    LET q == (avg_draft * 10) \div AngleOne
        r == (avg_draft * 10) % AngleOne
        t == IF 2 * r > AngleOne \/ (2 * r = AngleOne /\ q % 2 = 1)
             THEN q + 1 ELSE q
    IN  CASE t = 0 -> "0.0" [] t = 1 -> "0.1" [] t = 2 -> "0.2"
          [] t = 3 -> "0.3" [] t = 4 -> "0.4" [] t = 5 -> "0.5"

\* the reason texts, as sequences of their parts; <<>> is the empty string
CavityReason == <<"Cavity">>
CoreReason == <<"Core">>
DraftShortageReason(avg_draft) == <<"DraftShortage", FormatTenths(avg_draft)>>
MixedReason == <<"MixedNormals">>

\* center_z > parting_z and avg_nz < -0.1 and avg_draft < 45
CavityRule(result, avg_nz, pz) ==
    /\ result.center[3] > pz
    /\ 10 * avg_nz < -NormalOne
    /\ result.avg_draft < 45 * AngleOne

\* center_z < parting_z and avg_nz > 0.1 and avg_draft < 45
CoreRule(result, avg_nz, pz) ==
    /\ result.center[3] < pz
    /\ 10 * avg_nz > NormalOne
    /\ result.avg_draft < 45 * AngleOne

\* the reason after the three ifs, <<>> when none fired (is_undercut false)
RuleReason(result, avg_nz, pz) ==
    LET r1 == IF CavityRule(result, avg_nz, pz) THEN CavityReason ELSE <<>>
        r2 == IF CoreRule(result, avg_nz, pz) THEN CoreReason ELSE r1
    IN  IF 2 * result.avg_draft < AngleOne /\ r2 = <<>>
        THEN DraftShortageReason(result.avg_draft)
        ELSE r2

\* the mixed-normal reason given to every flagged face, whatever rule fired
ScanFaceMixedFirst(result, avg_nz, pz) ==
    LET reason == RuleReason(result, avg_nz, pz)
        is_undercut == reason # <<>>
    IN  IF is_undercut \/ result.is_undercut
        THEN << [face_id |-> result.face_id,
                 reason |-> IF result.is_undercut THEN MixedReason ELSE reason,
                 center |-> result.center,
                 avg_draft |-> result.avg_draft,
                 surface_type |-> result.surface_type,
                 area |-> result.area] >>
        ELSE <<>>

\* the face's own flag not consulted: only a fired rule appends
ScanFaceRulesOnly(result, avg_nz, pz) ==
    LET reason == RuleReason(result, avg_nz, pz)
    IN  IF reason # <<>>
        THEN << [face_id |-> result.face_id,
                 reason |-> reason,
                 center |-> result.center,
                 avg_draft |-> result.avg_draft,
                 surface_type |-> result.surface_type,
                 area |-> result.area] >>
        ELSE <<>>

\* the body of the loop after the two skips: the entry appended for the
\* face, if any
ScanFace(result, avg_nz, pz) ==
    LET reason == RuleReason(result, avg_nz, pz)
        is_undercut == reason # <<>>
    IN  IF is_undercut \/ result.is_undercut
        THEN << [face_id |-> result.face_id,
                 reason |-> IF reason # <<>> THEN reason ELSE MixedReason,
                 center |-> result.center,
                 avg_draft |-> result.avg_draft,
                 surface_type |-> result.surface_type,
                 area |-> result.area] >>
        ELSE <<>>

\* the division guarded instead of the face passed over: a face with no
\* normals is scanned with avg_nz = 0
FaceUndercutGuarded(result, pz) ==
    IF result.avg_draft > 80 * AngleOne THEN <<>>
    ELSE ScanFace(result,
                  IF Len(result.normals) = 0 THEN 0 ELSE AvgNz(result.normals),
                  pz)

\* one iteration of the loop: a face with no normals or avg_draft > 80 is
\* passed over
FaceUndercut(result, pz) ==
    IF Len(result.normals) = 0 THEN <<>>
    ELSE IF result.avg_draft > 80 * AngleOne THEN <<>>
    ELSE ScanFace(result, AvgNz(result.normals), pz)

RECURSIVE ScanUndercuts(_, _, _)
ScanUndercuts(results, k, pz) ==
    IF k > Len(results) THEN <<>>
    ELSE FaceUndercut(results[k], pz) \o ScanUndercuts(results, k + 1, pz)

\* opening_dir is accepted and never read
detect_undercuts(results, pz, dir) == ScanUndercuts(results, 1, pz)

\* ------------------ specification: analyze_all_faces, then detect_undercuts

\* the histogram's number of bins
n_bins == 20

\* coordinates are in units of 1/CoordOne mm, so that the centre of a bin of
\* a box of whole millimetres is a whole number of units
CoordOne == 2 * n_bins

\* centroids: x and z on opposite sides of 0
Centers == {<<-10 * CoordOne, 0, 10 * CoordOne>>, <<0, 0, 0>>,
            <<10 * CoordOne, 0, -10 * CoordOne>>}

PartingCoords == {-10 * CoordOne, 0, 10 * CoordOne}

ScanFaces ==
    [surface_type : {GeomAbs_Plane, GeomAbs_Cylinder}, area : {50},
     center : Centers, u_min : {0}, u_max : {UMax}, u_break : 0..UMax,
     n_lo : RawNormals, n_hi : RawNormals]

PlaneFace(n, c) ==
    [surface_type |-> GeomAbs_Plane, area |-> 50 + Abs(n[1]) + Abs(n[3]),
     center |-> c,
     u_min |-> 0, u_max |-> UMax, u_break |-> 0, n_lo |-> n, n_hi |-> n]

\* a top face, a side wall, a degenerate face, an overhang above the parting
\* plane and a cylinder whose normal flips
SmallFaces ==
    { PlaneFace(<<0, 0, 2>>, <<0, 0, 10 * CoordOne>>),
      PlaneFace(<<5, 0, 0>>, <<10 * CoordOne, 0, 0>>),
      PlaneFace(ZeroVec, <<0, 0, 0>>),
      PlaneFace(<<4, 0, -3>>, <<0, 10 * CoordOne, 10 * CoordOne>>),
      [surface_type |-> GeomAbs_Cylinder, area |-> 200,
       center |-> <<0, 0, -10 * CoordOne>>, u_min |-> 0, u_max |-> UMax,
       u_break |-> 2, n_lo |-> <<4, 0, 3>>, n_hi |-> <<-3, 0, -4>>] }

\* the lists of n elements of S
ListsOf(S, n) == [1..n -> S]

\* no face, any one face of ScanFaces, or 2..MaxFaces faces of SmallFaces
Init ==
    /\ pc = "start"
    /\ opening_dir \in AxisDirs \cup {None}
    /\ n_samples = 0
    /\ \/ faces = <<>>
       \/ \E f \in ScanFaces : faces = <<f>>
       \/ \E n \in 2..MaxFaces : faces \in ListsOf(SmallFaces, n)
    /\ face_results = <<>>
    /\ parting_z = 0
    /\ undercuts = <<>>
    /\ shape = NoShape
    /\ parting_info = <<>>
    /\ NoLaterStage

CallAnalyzeAllFaces ==
    /\ pc = "start"
    /\ face_results' = analyze_all_faces(faces, opening_dir)
    /\ pc' = "analyzed"
    /\ UNCHANGED <<opening_dir, n_samples, faces, parting_z, undercuts,
                   shape, parting_info>>
    /\ UNCHANGED laterVars

CallDetectUndercuts ==
    /\ pc = "analyzed"
    /\ \E pz \in PartingCoords :
          /\ parting_z' = pz
          /\ undercuts' = detect_undercuts(face_results, pz, opening_dir)
    /\ pc' = "detected"
    /\ UNCHANGED <<opening_dir, n_samples, faces, face_results, shape,
                   parting_info>>
    /\ UNCHANGED laterVars

Next == CallAnalyzeAllFaces \/ CallDetectUndercuts

Spec == Init /\ [][Next]_vars

\* ------------------------------------------------------ get_bounding_box

\* shape.box is Bnd_Box.Get(): <<xmin, ymin, zmin, xmax, ymax, zmax>>
get_bounding_box(sh) ==
    [xmin |-> sh.box[1], ymin |-> sh.box[2], zmin |-> sh.box[3],
     xmax |-> sh.box[4], ymax |-> sh.box[5], zmax |-> sh.box[6],
     dx |-> sh.box[4] - sh.box[1],
     dy |-> sh.box[5] - sh.box[2],
     dz |-> sh.box[6] - sh.box[3]]

\* ----------------------------------------------- _silhouette_parting_line

\* points sampled on a silhouette edge: k = 0..n_pts
n_pts == 5

\* An edge as the kernel answers for it: the faces of the shape it bounds
\* (positions in the face list), whether BRepAdaptor_Curve accepts it (it
\* raises on an edge without a curve), and the curve, a straight segment
\* from p_first to p_last.
CurveValue(edge, k) ==
    [c \in 1..3 |->
        edge.p_first[c] + ((edge.p_last[c] - edge.p_first[c]) * k) \div n_pts]

EdgePoints(edge) == [k \in 1..(n_pts + 1) |-> CurveValue(edge, k - 1)]

\* the raw normal of a face at the middle of its parameter range
MidNormal(face) == FaceNormal(face, face.u_min + face.u_max, 2)

\* dot1 * dot2 < -0.01 for the two faces of the edge, both normals valid
IsSilhouette(edge, fs, dir) ==
    LET n1 == MidNormal(fs[edge.adjacent[1]])
        n2 == MidNormal(fs[edge.adjacent[2]])
    IN  /\ IsValidSample(n1) /\ IsValidSample(n2)
        /\ 100 * Dot(NormalizeTable[n1], dir) * Dot(NormalizeTable[n2], dir)
              < -(NormalOne * NormalOne)

\* the loop over the edges from edge k on: the points collected, or raised
\* when a kernel call of the loop body raises
RECURSIVE CollectSilhouette(_, _, _, _, _)
CollectSilhouette(edges, k, fs, dir, points) ==
    IF k > Len(edges) THEN [raised |-> FALSE, points |-> points]
    ELSE LET edge == edges[k]
         IN  IF Len(edge.adjacent) # 2
             THEN CollectSilhouette(edges, k + 1, fs, dir, points)
             ELSE IF ~edge.curve_ok
             THEN [raised |-> TRUE, points |-> points]
             ELSE IF IsSilhouette(edge, fs, dir)
             THEN CollectSilhouette(edges, k + 1, fs, dir,
                                    points \o EdgePoints(edge))
             ELSE CollectSilhouette(edges, k + 1, fs, dir, points)

\* avg_z = sum(p[2] for p in silhouette_points) / len(silhouette_points)
AvgZ(points) ==
    FDiv(FSum([k \in 1..Len(points) |-> points[k][3]]), Len(points))

\* the points collected before a kernel call raised are kept and averaged
silhouette_parting_line_partial(sh, fs, dir) ==
    LET pass == CollectSilhouette(sh.edges, 1, sh.faces, dir, <<>>)
    IN  IF Len(pass.points) >= 3
        THEN <<pass.points, AvgZ(pass.points)>>
        ELSE <<>>

\* <<silhouette_points, avg_z>>, or <<>> for (None, None); the faces
\* argument is not read, the faces are those of the shape
silhouette_parting_line(sh, fs, dir) ==
    LET pass == CollectSilhouette(sh.edges, 1, sh.faces, dir, <<>>)
    IN  IF pass.raised THEN <<>>
        ELSE IF Len(pass.points) >= 3
        THEN <<pass.points, AvgZ(pass.points)>>
        ELSE <<>>

\* -------------------------------------------------- estimate_parting_line

\* int(x / y) for y > 0: truncation toward zero
TruncDiv(x, y) == IF x >= 0 THEN x \div y ELSE -((-x) \div y)

\* bins[idx]: a negative index counts from the end of the list
PyIndex(idx, n) == IF idx < 0 THEN idx + n ELSE idx

\* z_range / n_bins, with z_range = dz if dz > 0 else 1 (one millimetre)
BinSize(bbox) == (IF bbox.dz > 0 THEN bbox.dz ELSE CoordOne) \div n_bins

\* the bin a centroid is counted in
BinOf(z, bbox) ==
    PyIndex(Min2(TruncDiv(z - bbox.zmin, BinSize(bbox)), n_bins - 1), n_bins)

\* the loop over z_centers from position k on: bins[idx] += 1, bin b at
\* position b + 1
RECURSIVE FillBins(_, _, _, _)
FillBins(bins, z_centers, k, bbox) ==
    IF k > Len(z_centers) THEN bins
    ELSE FillBins([bins EXCEPT ![BinOf(z_centers[k], bbox) + 1] = @ + 1],
                  z_centers, k + 1, bbox)

\* bins = [0] * n_bins, then the loop
Histogram(z_centers, bbox) ==
    FillBins([b \in 1..n_bins |-> 0], z_centers, 1, bbox)

\* bins.index(max(bins)): the first bin holding the largest count
MaxBin(bins) ==
    CHOOSE b \in 0..(n_bins - 1) :
        /\ \A c \in 0..(n_bins - 1) : bins[c + 1] <= bins[b + 1]
        /\ \A c \in 0..(b - 1) : bins[c + 1] < bins[b + 1]

\* estimated_z of the fallback
HistogramZ(results, bbox) ==
    LET z_centers == [k \in 1..Len(results) |-> results[k].center[3]]
    IN  IF Len(z_centers) > 0
        THEN bbox.zmin
             + ((2 * MaxBin(Histogram(z_centers, bbox)) + 1) * BinSize(bbox))
               \div 2
        ELSE (bbox.zmin + bbox.zmax) \div 2

\* the ids of the faces with normals whose avg_nz satisfies the test
FaceIdsWhere(results, Test(_)) ==
    LET hit == SelectSeq(results,
                   LAMBDA r : Len(r.normals) > 0 /\ Test(AvgNz(r.normals)))
    IN  [k \in 1..Len(hit) |-> hit[k].face_id]

estimate_parting_line(sh, fs, results, dir_arg) ==
    LET dir == DefaultDir(dir_arg)
        bbox == get_bounding_box(sh)
        upper_faces == FaceIdsWhere(results, LAMBDA a : 10 * a > NormalOne)
        lower_faces == FaceIdsWhere(results, LAMBDA a : 10 * a < -NormalOne)
        vertical_faces ==
            FaceIdsWhere(results,
                LAMBDA a : ~(10 * a > NormalOne) /\ ~(10 * a < -NormalOne))
        sil == silhouette_parting_line(sh, fs, dir)
    IN  [parting_z |-> IF sil # <<>> THEN sil[2]
                       ELSE HistogramZ(results, bbox),
         z_mid |-> (bbox.zmin + bbox.zmax) \div 2,
         upper_face_count |-> Len(upper_faces),
         lower_face_count |-> Len(lower_faces),
         vertical_face_count |-> Len(vertical_faces),
         vertical_face_ids |-> vertical_faces,
         silhouette_points |-> IF sil # <<>> THEN sil[1] ELSE <<>>,
         parting_method |-> IF sil # <<>> THEN "silhouette" ELSE "histogram",
         bbox |-> bbox]

\* ----- specification: analyze_all_faces, then estimate_parting_line

\* most edges of a modelled shape
MaxEdges == 2

\* Bnd_Box.Get() of the modelled shapes, in millimetres: a box whose x and
\* z ranges are disjoint, and one of zero extent along z
BoxesMm == { <<-20, 0, 0, -10, 5, 10>>, <<-20, 0, 5, -10, 5, 5>> }

Boxes == { [c \in 1..6 |-> b[c] * CoordOne] : b \in BoxesMm }

BoxLo(box) == <<box[1], box[2], box[3]>>
BoxHi(box) == <<box[4], box[5], box[6]>>
BoxMid(box) == [c \in 1..3 |-> (box[c] + box[c + 3]) \div 2]

\* faces of a shape with this box: top, bottom, side walls and a degenerate
\* face, the centroids inside the box
BoxFaces(box) ==
    { PlaneFace(<<0, 0, 2>>, BoxHi(box)),
      PlaneFace(<<0, 0, -3>>, BoxLo(box)),
      PlaneFace(<<5, 0, 0>>, BoxMid(box)),
      PlaneFace(<<0, -1, 0>>, BoxHi(box)),
      PlaneFace(ZeroVec, BoxMid(box)) }

\* edges of a shape with this box and n faces: a boundary edge of face 1;
\* edges between face 1 and face n, along the bottom and from bottom to
\* top; one of them without a curve
BoxEdges(box, n) ==
    { [adjacent |-> <<1>>, curve_ok |-> TRUE,
       p_first |-> BoxLo(box), p_last |-> BoxHi(box)],
      [adjacent |-> <<1, n>>, curve_ok |-> TRUE,
       p_first |-> BoxLo(box), p_last |-> BoxLo(box)],
      [adjacent |-> <<1, n>>, curve_ok |-> TRUE,
       p_first |-> BoxLo(box), p_last |-> BoxHi(box)],
      [adjacent |-> <<1, n>>, curve_ok |-> FALSE,
       p_first |-> BoxLo(box), p_last |-> BoxLo(box)] }

\* a box, up to MaxFaces faces in it and up to MaxEdges edges between them
InitParting ==
    /\ pc = "start"
    /\ opening_dir \in AxisDirs \cup {None}
    /\ n_samples = 0
    /\ \E box \in Boxes : \E n \in 0..MaxFaces :
       \E m \in 0..(IF n = 0 THEN 0 ELSE MaxEdges) :
       \E fs \in ListsOf(BoxFaces(box), n) :
       \E es \in ListsOf(BoxEdges(box, n), m) :
          shape = [box |-> box, faces |-> fs, edges |-> es]
    /\ faces = shape.faces
    /\ face_results = <<>>
    /\ parting_z = 0
    /\ undercuts = <<>>
    /\ parting_info = <<>>
    /\ NoLaterStage

CallEstimatePartingLine ==
    /\ pc = "analyzed"
    /\ parting_info' =
          estimate_parting_line(shape, faces, face_results, opening_dir)
    /\ pc' = "estimated"
    /\ UNCHANGED <<opening_dir, n_samples, faces, face_results, parting_z,
                   undercuts, shape>>
    /\ UNCHANGED laterVars

NextParting == CallAnalyzeAllFaces \/ CallEstimatePartingLine

SpecParting == InitParting /\ [][NextParting]_vars

\* ================================================= analyze_wall_thickness

\* OFFSET = 0.02: the thickness unit of the model is 0.01 mm
OFFSET == 2

\* one millimetre of thickness
ThickOne == 50 * OFFSET

\* intersector.Perform(ray, 0, 500): the farthest hit, in millimetres
RayReach == 500

\* n_samples=3, the grid the pipeline asks for
DefaultThicknessSamples == 3

\* What IntCurvesFace_ShapeIntersector answers for the ray of a sample:
\* Perform raises, or NbPnt() hits with their WParameter(k).  A wall face is
\* a face with the answer for its samples below u_break (ray_lo) and from
\* u_break on (ray_hi).
Raising == [raises |-> TRUE, w |-> <<>>]
Hits(w) == [raises |-> FALSE, w |-> w]

RayOf(face, u_num, u_den) ==
    IF u_num < face.u_break * u_den THEN face.ray_lo ELSE face.ray_hi

\* dist = intersector.WParameter(k) + OFFSET
HitDist(w) == FAdd(w, OFFSET)

\* the least dist of all the hits, none discarded
MinDistNoDiscard(w) ==
    IF Len(w) = 0 THEN <<>>
    ELSE <<CHOOSE d \in {HitDist(w[k]) : k \in 1..Len(w)} :
              \A k \in 1..Len(w) : d <= HitDist(w[k])>>

\* min_dist after the loop over the hits: the least dist > OFFSET * 3, or
\* <<>> for float('inf')
MinDist(w) ==
    LET kept == {k \in 1..Len(w) : HitDist(w[k]) > OFFSET * 3}
    IN  IF kept = {} THEN <<>>
        ELSE <<CHOOSE d \in {HitDist(w[k]) : k \in kept} :
                  \A k \in kept : d <= HitDist(w[k])>>

\* a sample whose ray finds nothing recorded as thickness 0
SampleThicknessZeroOnMiss(face, i, n) ==
    LET u == SampleU(face, i, n)
        normal == FaceNormal(face, u[1], u[2])
        ray == RayOf(face, u[1], u[2])
    IN  IF Magnitude(normal) < NormalTol THEN <<>>
        ELSE IF ray.raises THEN <<>>
        ELSE IF Len(ray.w) > 0 /\ MinDist(ray.w) # <<>> THEN MinDist(ray.w)
        ELSE <<0>>

\* what one sample appends to thicknesses: <<min_dist>> or nothing
SampleThickness(face, i, n) ==
    LET u == SampleU(face, i, n)
        normal == FaceNormal(face, u[1], u[2])
        ray == RayOf(face, u[1], u[2])
    IN  IF Magnitude(normal) < NormalTol THEN <<>>
        ELSE IF ray.raises THEN <<>>
        ELSE IF Len(ray.w) > 0 THEN MinDist(ray.w)
        ELSE <<>>

\* thicknesses of a face: the samples k..n*n in loop order (i outer, j inner)
RECURSIVE FaceSamples(_, _, _)
FaceSamples(face, k, n) ==
    IF k > n * n THEN <<>>
    ELSE SampleThickness(face, (k - 1) \div n, n) \o FaceSamples(face, k + 1, n)

\* the record appended to face_thicknesses
FaceThickness(face_idx, thicknesses) ==
    IF Len(thicknesses) > 0
    THEN [face_id |-> face_idx,
          min_thickness |-> SeqMin(thicknesses),
          max_thickness |-> SeqMax(thicknesses),
          avg_thickness |-> FDiv(FSum(thicknesses), Len(thicknesses)),
          samples |-> Len(thicknesses)]
    ELSE [face_id |-> face_idx,
          min_thickness |-> 0, max_thickness |-> 0, avg_thickness |-> 0,
          samples |-> 0]

\* all_thicknesses: the samples of the faces k.. in order
RECURSIVE AllThicknesses(_, _, _)
AllThicknesses(fs, k, n) ==
    IF k > Len(fs) THEN <<>>
    ELSE FaceSamples(fs[k], 1, n) \o AllThicknesses(fs, k + 1, n)

\* f"{max_t / min_t:.1f}": tenths, rounded half to even
RatioTenths(max_t, min_t) ==
    LET q == (10 * max_t) \div min_t
        r == (10 * max_t) % min_t
    IN  IF 2 * r > min_t \/ (2 * r = min_t /\ q % 2 = 1) THEN q + 1 ELSE q

\* the warnings, each as <<kind, the number in its text>>
FillRisk(min_t) == <<"FillRisk", min_t>>
SinkMark(max_t) == <<"SinkMark", max_t>>
ShrinkRisk(max_t, min_t) == <<"ShrinkRisk", RatioTenths(max_t, min_t)>>

\* max_t / min_t > 2, the quotient rounded as the program rounds it
RatioOne == 2^10
RatioAboveTwo(max_t, min_t) == RoundRat(max_t * RatioOne, min_t) > 2 * RatioOne

\* the three ifs outside the "if all_thicknesses" guard
ThicknessWarningsUnguarded(all, min_t, max_t) ==
    (IF 10 * min_t < 8 * ThickOne THEN <<FillRisk(min_t)>> ELSE <<>>)
    \o (IF max_t > 4 * ThickOne THEN <<SinkMark(max_t)>> ELSE <<>>)
    \o (IF 100 * min_t > ThickOne /\ RatioAboveTwo(max_t, min_t)
        THEN <<ShrinkRisk(max_t, min_t)>> ELSE <<>>)

\* the three ifs on min_t and max_t; no warning without a sample
ThicknessWarnings(all, min_t, max_t) ==
    IF Len(all) = 0 THEN <<>>
    ELSE (IF 10 * min_t < 8 * ThickOne THEN <<FillRisk(min_t)>> ELSE <<>>)
         \o (IF max_t > 4 * ThickOne THEN <<SinkMark(max_t)>> ELSE <<>>)
         \o (IF 100 * min_t > ThickOne /\ RatioAboveTwo(max_t, min_t)
             THEN <<ShrinkRisk(max_t, min_t)>> ELSE <<>>)

\* the thickness histogram's number of bins
thickness_n_bins == 10

\* min(int((t - min_t) / bin_range * (n_bins - 0.01)), n_bins - 1)
ThicknessBin(t, min_t, bin_range) ==
    Min2(((t - min_t) * (100 * thickness_n_bins - 1)) \div (bin_range * 100),
         thickness_n_bins - 1)

RECURSIVE FillThicknessBins(_, _, _, _, _)
FillThicknessBins(bins, all, k, min_t, bin_range) ==
    IF k > Len(all) THEN bins
    ELSE LET idx == ThicknessBin(all[k], min_t, bin_range)
             next == [bins EXCEPT ![idx + 1] = @ + 1]
         IN  FillThicknessBins(next, all, k + 1, min_t, bin_range)

\* histogram: None (<<>>) unless there is a sample and max_t > min_t;
\* bin_size is kept as the fraction <<bin_range, n_bins>>
ThicknessHistogram(all, min_t, max_t) ==
    IF Len(all) > 0 /\ max_t > min_t
    THEN [bins |-> FillThicknessBins([b \in 1..thickness_n_bins |-> 0], all,
                                     1, min_t, max_t - min_t),
          min |-> min_t, max |-> max_t,
          bin_size |-> <<max_t - min_t, thickness_n_bins>>]
    ELSE <<>>

\* the divisor's floor 0.1 instead of 0.01
ThicknessRatioFloorTenth(min_t, max_t) ==
    RoundRat(max_t * RatioOne, Max2(min_t, ThickOne \div 10))

\* max_t / max(min_t, 0.01), in units of 1/RatioOne
ThicknessRatio(min_t, max_t) ==
    RoundRat(max_t * RatioOne, Max2(min_t, ThickOne \div 100))

analyze_wall_thickness(sh, fs, n) ==
    LET all == AllThicknesses(fs, 1, n)
        min_t == IF Len(all) > 0 THEN SeqMin(all) ELSE 0
        max_t == IF Len(all) > 0 THEN SeqMax(all) ELSE 0
        avg_t == IF Len(all) > 0 THEN FDiv(FSum(all), Len(all)) ELSE 0
    IN  [face_thicknesses |->
            [k \in 1..Len(fs) |->
                FaceThickness(k - 1, FaceSamples(fs[k], 1, n))],
         min_thickness |-> min_t,
         max_thickness |-> max_t,
         avg_thickness |-> avg_t,
         thickness_ratio |-> ThicknessRatio(min_t, max_t),
         warnings |-> ThicknessWarnings(all, min_t, max_t),
         histogram |-> ThicknessHistogram(all, min_t, max_t),
         total_samples |-> Len(all)]

\* ----------------------- specification: one analyze_wall_thickness call

\* the answers of the intersector the wall faces are drawn with: WParameter
\* in units of 0.01 mm
RayAnswers ==
    { Raising, Hits(<<>>), Hits(<<3>>), Hits(<<4>>), Hits(<<5>>),
      Hits(<<48>>), Hits(<<78>>), Hits(<<98>>), Hits(<<198>>),
      Hits(<<3, 298, 98>>), Hits(<<398>>), Hits(<<RayReach * ThickOne>>) }

WallFace(n_lo, n_hi, ray_lo, ray_hi, u_break) ==
    [surface_type |-> GeomAbs_Plane, area |-> 50, center |-> <<0, 0, 0>>,
     u_min |-> 0, u_max |-> UMax, u_break |-> u_break,
     n_lo |-> n_lo, n_hi |-> n_hi, ray_lo |-> ray_lo, ray_hi |-> ray_hi]

\* a face for every answer, a face of degenerate normals, and faces whose
\* samples differ: in the answer, or in the normal being degenerate
WallFaces ==
    { WallFace(<<0, 0, 2>>, <<0, 0, 2>>, a, a, 0) : a \in RayAnswers }
    \cup { WallFace(ZeroVec, ZeroVec, Hits(<<98>>), Hits(<<98>>), 0),
           WallFace(<<0, 0, 2>>, <<5, 0, 0>>, Hits(<<98>>), Hits(<<298>>), 2),
           WallFace(<<0, 0, 2>>, <<5, 0, 0>>, Raising, Hits(<<198>>), 2),
           WallFace(ZeroVec, <<5, 0, 0>>, Hits(<<5>>), Hits(<<98>>), 2) }

InitThickness ==
    /\ pc = "start"
    /\ opening_dir = None
    /\ n_samples \in 0..MaxGrid \cup {DefaultThicknessSamples}
    /\ \E n \in 0..MaxFaces : faces \in ListsOf(WallFaces, n)
    /\ face_results = <<>>
    /\ parting_z = 0
    /\ undercuts = <<>>
    /\ shape = NoShape
    /\ parting_info = <<>>
    /\ NoLaterStage

CallAnalyzeWallThickness ==
    /\ pc = "start"
    /\ thickness_data' = analyze_wall_thickness(shape, faces, n_samples)
    /\ pc' = "measured"
    /\ UNCHANGED <<opening_dir, n_samples, faces, face_results, parting_z,
                   undercuts, shape, parting_info, axis_index, groups,
                   slides, mold_layout, input_file, summary, error>>

NextThickness == CallAnalyzeWallThickness

SpecThickness == InitThickness /\ [][NextThickness]_vars

\* ============================================================ slide_core

\* numpy vectors: normals in units of 1/NormalOne, centers in 1/CoordOne mm
VSub(a, b) == <<a[1] - b[1], a[2] - b[2], a[3] - b[3]>>

\* np.mean(vectors, axis=0)
MeanVec(vs) ==
    [c \in 1..3 |-> FDiv(FSum([k \in 1..Len(vs) |-> vs[k][c]]), Len(vs))]

\* v[axis_index] = 0
Projected(v, axis) == [v EXCEPT ![axis + 1] = 0]

\* default = [0, 0, 0]; default[(axis_index + 1) % 3] = 1
DefaultSlideDir(axis) ==
    [ZeroVec EXCEPT ![((axis + 1) % 3) + 1] = NormalOne]

\* 1/sqrt(2), the component of a diagonal canonical direction
Diag == Sqrt((NormalOne * NormalOne) \div 2)

\* _get_canonical_directions: the dict as the list of its <<name, vector>>
\* items, in insertion order
CanonicalDirections(axis) ==
    IF axis = 0
    THEN << <<"+Y", <<0, NormalOne, 0>> >>, <<"-Y", <<0, -NormalOne, 0>> >>,
            <<"+Z", <<0, 0, NormalOne>> >>, <<"-Z", <<0, 0, -NormalOne>> >>,
            <<"+Y+Z", <<0, Diag, Diag>> >>, <<"+Y-Z", <<0, Diag, -Diag>> >>,
            <<"-Y+Z", <<0, -Diag, Diag>> >>, <<"-Y-Z", <<0, -Diag, -Diag>> >> >>
    ELSE IF axis = 1
    THEN << <<"+X", <<NormalOne, 0, 0>> >>, <<"-X", <<-NormalOne, 0, 0>> >>,
            <<"+Z", <<0, 0, NormalOne>> >>, <<"-Z", <<0, 0, -NormalOne>> >>,
            <<"+X+Z", <<Diag, 0, Diag>> >>, <<"+X-Z", <<Diag, 0, -Diag>> >>,
            <<"-X+Z", <<-Diag, 0, Diag>> >>, <<"-X-Z", <<-Diag, 0, -Diag>> >> >>
    ELSE << <<"+X", <<NormalOne, 0, 0>> >>, <<"-X", <<-NormalOne, 0, 0>> >>,
            <<"+Y", <<0, NormalOne, 0>> >>, <<"-Y", <<0, -NormalOne, 0>> >>,
            <<"+X+Y", <<Diag, Diag, 0>> >>, <<"+X-Y", <<Diag, -Diag, 0>> >>,
            <<"-X+Y", <<-Diag, Diag, 0>> >>, <<"-X-Y", <<-Diag, -Diag, 0>> >> >>

\* the slide direction itself taken as the direction vector
nearest_canonical_raw(direction, axis) == <<"raw", direction>>

\* _nearest_canonical: the first item of the greatest dot product
nearest_canonical(direction, axis) ==
    LET dirs == CanonicalDirections(axis)
        best == CHOOSE b \in 1..Len(dirs) :
                   /\ \A k \in 1..Len(dirs) :
                         Dot(direction, dirs[k][2]) <= Dot(direction, dirs[b][2])
                   /\ \A k \in 1..(b - 1) :
                         Dot(direction, dirs[k][2]) < Dot(direction, dirs[b][2])
    IN  dirs[best]

\* _compute_slide_direction: the mean normal projected on the plane across
\* the opening axis and normalized; the default direction without normals or
\* when the projection vanishes (norm < 1e-10, below the resolution here)
compute_slide_direction(normals, axis) ==
    IF Len(normals) = 0 THEN DefaultSlideDir(axis)
    ELSE LET avg_normal == Projected(MeanVec(normals), axis)
         IN  IF Magnitude(avg_normal) = 0 THEN DefaultSlideDir(axis)
             ELSE Normalize(avg_normal)

\* ------------------------------------------------------- group_undercuts

\* distance_threshold and angle_threshold, the defaults
distance_threshold == 20
angle_threshold == 45

\* result_map.get(fid, {}).get("normals", []): the last result of that id
NormalsOf(results, fid) ==
    LET hits == {k \in 1..Len(results) : results[k].face_id = fid}
    IN  IF hits = {} THEN <<>>
        ELSE results[CHOOSE k \in hits : \A h \in hits : h <= k].normals

\* horizontal_dir of an undercut: the mean normal without its opening-axis
\* component, normalized; zero without normals or when nothing is left
HorizontalDir(normals, axis) ==
    IF Len(normals) = 0 THEN ZeroVec
    ELSE LET projected == Projected(MeanVec(normals), axis)
         IN  IF Magnitude(projected) > 0 THEN Normalize(projected)
             ELSE ZeroVec

\* the entry of uc_data for an undercut
UcData(uc, results, axis) ==
    LET normals == NormalsOf(results, uc.face_id)
    IN  [face_id |-> uc.face_id,
         center |-> uc.center,
         horizontal_dir |-> HorizontalDir(normals, axis),
         normals |-> normals,
         area |-> uc.area,
         surface_type |-> uc.surface_type,
         reason |-> uc.reason]

\* the distance test with a threshold of 30 mm
TooFarLoose(a, b) ==
    LET d == VSub(a, b)
    IN  d[1] * d[1] + d[2] * d[2] + d[3] * d[3]
           > (30 * CoordOne) * (30 * CoordOne)

\* the distance test with a threshold of 4 mm
TooFarTight(a, b) ==
    LET d == VSub(a, b)
    IN  d[1] * d[1] + d[2] * d[2] + d[3] * d[3]
           > (4 * CoordOne) * (4 * CoordOne)

\* np.linalg.norm(a - b) > distance_threshold, on the squares
TooFar(a, b) ==
    LET d == VSub(a, b)
    IN  d[1] * d[1] + d[2] * d[2] + d[3] * d[3]
           > (distance_threshold * CoordOne) * (distance_threshold * CoordOne)

\* math.degrees(math.acos(x)) for 0 <= x <= 1
AcosDegrees(x) == RoundRat(90 * AngleOne - AsinTable[x + 1], 1)

\* both directions meaningful (norm > 0.1) and more than angle_threshold
\* apart, the angle taken from |dot|
DirectionsDiffer(h_i, h_j) ==
    /\ 10 * Magnitude(h_i) > NormalOne
    /\ 10 * Magnitude(h_j) > NormalOne
    /\ LET dot == Min2(RoundRat(Abs(Dot(h_i, h_j)), NormalOne), NormalOne)
       IN  AcosDegrees(dot) > angle_threshold * AngleOne

\* the inner loop with each candidate compared with the member that joined
\* last instead of the seed
RECURSIVE JoinSeedChained(_, _, _, _)
JoinSeedChained(uc_data, used, i, j) ==
    IF j > Len(uc_data) THEN <<>>
    ELSE IF j \in used THEN JoinSeedChained(uc_data, used, i, j + 1)
    ELSE IF TooFar(uc_data[i].center, uc_data[j].center)
    THEN JoinSeedChained(uc_data, used, i, j + 1)
    ELSE IF DirectionsDiffer(uc_data[i].horizontal_dir,
                             uc_data[j].horizontal_dir)
    THEN JoinSeedChained(uc_data, used, i, j + 1)
    ELSE <<j>> \o JoinSeedChained(uc_data, used \cup {j}, j, j + 1)

\* the inner loop from j on for the seed i: the positions joining the group
RECURSIVE JoinSeed(_, _, _, _)
JoinSeed(uc_data, used, i, j) ==
    IF j > Len(uc_data) THEN <<>>
    ELSE IF j \in used THEN JoinSeed(uc_data, used, i, j + 1)
    ELSE IF TooFar(uc_data[i].center, uc_data[j].center)
    THEN JoinSeed(uc_data, used, i, j + 1)
    ELSE IF DirectionsDiffer(uc_data[i].horizontal_dir,
                             uc_data[j].horizontal_dir)
    THEN JoinSeed(uc_data, used, i, j + 1)
    ELSE <<j>> \o JoinSeed(uc_data, used \cup {j}, i, j + 1)

\* the outer loop with only the seeds marked used, not the members
RECURSIVE SeedGroupsMembersFree(_, _, _)
SeedGroupsMembersFree(uc_data, used, i) ==
    IF i > Len(uc_data) THEN <<>>
    ELSE IF i \in used THEN SeedGroupsMembersFree(uc_data, used, i + 1)
    ELSE <<(<<i>> \o JoinSeed(uc_data, used \cup {i}, i, 1))>>
         \o SeedGroupsMembersFree(uc_data, used \cup {i}, i + 1)

\* the outer loop from i on: the groups, as lists of positions in uc_data
RECURSIVE SeedGroups(_, _, _)
SeedGroups(uc_data, used, i) ==
    IF i > Len(uc_data) THEN <<>>
    ELSE IF i \in used THEN SeedGroups(uc_data, used, i + 1)
    ELSE LET members == <<i>> \o JoinSeed(uc_data, used \cup {i}, i, 1)
         IN  <<members>>
             \o SeedGroups(uc_data,
                           used \cup {members[k] : k \in 1..Len(members)},
                           i + 1)

group_undercuts(ucs, results, axis) ==
    IF Len(ucs) = 0 THEN <<>>
    ELSE LET uc_data == [k \in 1..Len(ucs) |-> UcData(ucs[k], results, axis)]
             positions == SeedGroups(uc_data, {}, 1)
         IN  [g \in 1..Len(positions) |->
                 [m \in 1..Len(positions[g]) |-> uc_data[positions[g][m]]]]

\* --------------------------------------------------- analyze_slide_cores

\* minimum undercut depth, safety margin of the stroke, margin around the
\* group and length of the slide body after the stroke, in mm
min_depth == 2
stroke_margin == 3
size_margin == 10
body_length == 15

\* total area under which a near-parting group is a lifter, in mm^2
small_area_limit == 100

\* near_parting: offset from the parting coordinate below this percentage of
\* the box's extent along the opening axis
near_percent == 15

\* all_normals.extend(face_data["normals"]) over the group
RECURSIVE GroupNormals(_, _)
GroupNormals(group, k) ==
    IF k > Len(group) THEN <<>>
    ELSE group[k].normals \o GroupNormals(group, k + 1)

\* total_area += face_data["area"]
RECURSIVE GroupArea(_, _)
GroupArea(group, k) ==
    IF k > Len(group) THEN 0
    ELSE group[k].area + GroupArea(group, k + 1)

\* np_centers.min(axis=0), .max(axis=0)
MinVec(vs) == [c \in 1..3 |-> SeqMin([k \in 1..Len(vs) |-> vs[k][c]])]
MaxVec(vs) == [c \in 1..3 |-> SeqMax([k \in 1..Len(vs) |-> vs[k][c]])]

\* abs(np.dot(center - group_center, canonical_dir)) for every center
Projections(centers, group_center, canonical_dir) ==
    [k \in 1..Len(centers) |->
        RoundRat(Abs(Dot(VSub(centers[k], group_center), canonical_dir)),
                 NormalOne)]

\* bbox[bbox_keys[axis_index]]
BoxExtent(bbox, axis) ==
    IF axis = 0 THEN bbox.dx ELSE IF axis = 1 THEN bbox.dy ELSE bbox.dz

\* abs(avg_ax - parting_z) < extent * 0.15
NearParting(avg_ax, pz, extent) ==
    100 * Abs(avg_ax - pz) < near_percent * extent

CoreType(near_parting, total_area) ==
    IF near_parting /\ total_area < small_area_limit THEN "lifter"
    ELSE IF near_parting THEN "lifter_or_slide"
    ELSE "slide"

\* the depth left at the greatest projection, with no minimum
UndercutDepthNoFloor(projections) == SeqMax(projections)

\* max(max(projections), 2.0)
UndercutDepth(projections) ==
    Max2(SeqMax(projections), min_depth * CoordOne)

\* the dict appended for a group of at least one normal; the texts
\* core_type_kr and core_reason and the angular_pin_angle are left out
SlideOf(group_idx, group, bbox, pz, axis) ==
    LET all_normals == GroupNormals(group, 1)
        all_centers == [k \in 1..Len(group) |-> group[k].center]
        total_area == GroupArea(group, 1)
        slide_dir == compute_slide_direction(all_normals, axis)
        canonical == nearest_canonical(slide_dir, axis)
        canonical_dir == canonical[2]
        group_min == MinVec(all_centers)
        group_max == MaxVec(all_centers)
        group_center == MeanVec(all_centers)
        undercut_depth ==
            UndercutDepth(Projections(all_centers, group_center, canonical_dir))
        stroke == FAdd(undercut_depth, stroke_margin * CoordOne)
        dx == FAdd(group_max[1] - group_min[1], size_margin * CoordOne)
        dy == FAdd(group_max[2] - group_min[2], size_margin * CoordOne)
        dz == FAdd(group_max[3] - group_min[3], size_margin * CoordOne)
        near_parting ==
            NearParting(group_center[axis + 1], pz, BoxExtent(bbox, axis))
    IN  [id |-> group_idx + 1,
         core_type |-> CoreType(near_parting, total_area),
         direction_name |-> canonical[1],
         direction_vector |-> canonical_dir,
         slide_dir_raw |-> slide_dir,
         face_ids |-> [k \in 1..Len(group) |-> group[k].face_id],
         face_count |-> Len(group),
         center |-> group_center,
         bbox_min |-> group_min,
         bbox_max |-> group_max,
         total_area |-> total_area,
         undercut_depth |-> undercut_depth,
         stroke |-> stroke,
         slide_size |->
             [width |-> IF 2 * Abs(canonical_dir[1]) > NormalOne
                        THEN dy ELSE dx,
              height |-> dz,
              length |-> FAdd(stroke, body_length * CoordOne)],
         near_parting |-> near_parting]

\* the loop over the groups: a group without normals is passed over
RECURSIVE SlidesFrom(_, _, _, _, _)
SlidesFrom(gs, g, bbox, pz, axis) ==
    IF g > Len(gs) THEN <<>>
    ELSE IF Len(GroupNormals(gs[g], 1)) = 0
    THEN SlidesFrom(gs, g + 1, bbox, pz, axis)
    ELSE <<SlideOf(g - 1, gs[g], bbox, pz, axis)>>
         \o SlidesFrom(gs, g + 1, bbox, pz, axis)

\* list.sort(key=total_area, reverse=True): stable, equal areas keep their
\* order
RECURSIVE InsertByArea(_, _)
InsertByArea(sorted, s) ==
    IF Len(sorted) = 0 THEN <<s>>
    ELSE IF sorted[Len(sorted)].total_area >= s.total_area
    THEN Append(sorted, s)
    ELSE Append(InsertByArea(SubSeq(sorted, 1, Len(sorted) - 1), s),
                sorted[Len(sorted)])

RECURSIVE SortByArea(_, _)
SortByArea(ss, n) ==
    IF n = 0 THEN <<>>
    ELSE InsertByArea(SortByArea(ss, n - 1), ss[n])

analyze_slide_cores(gs, bbox, pz, axis) ==
    LET found == SlidesFrom(gs, 1, bbox, pz, axis)
    IN  SortByArea(found, Len(found))

\* -------------------------------------------------- generate_mold_layout

\* frame allowance on the two sides and allowance above and below, in mm
frame_allowance == 60
height_allowance == 40

\* a dict of counts: the keys are the values met, each with its number
CountsBy(ss, key(_)) ==
    [v \in {key(ss[k]) : k \in 1..Len(ss)} |->
        Cardinality({k \in 1..Len(ss) : key(ss[k]) = v})]

\* max((s["stroke"] for s in slides), default=0)
MaxStroke(ss) ==
    IF Len(ss) = 0 THEN 0 ELSE SeqMax([k \in 1..Len(ss) |-> ss[k].stroke])

\* the rating with its limits one lower
ComplexityShifted(total_slides) ==
    IF total_slides = 0 THEN "Simple"
    ELSE IF total_slides <= 1 THEN "Moderate"
    ELSE IF total_slides <= 3 THEN "Complex"
    ELSE "VeryComplex"

\* the four complexity texts, by their meaning
Complexity(total_slides) ==
    IF total_slides = 0 THEN "Simple"
    ELSE IF total_slides <= 2 THEN "Moderate"
    ELSE IF total_slides <= 4 THEN "Complex"
    ELSE "VeryComplex"

\* complexity_detail, a text, is left out
generate_mold_layout(ss, bbox, pz) ==
    LET max_stroke == MaxStroke(ss)
    IN  [total_slides |-> Len(ss),
         direction_counts |-> CountsBy(ss, LAMBDA s : s.direction_name),
         type_counts |-> CountsBy(ss, LAMBDA s : s.core_type),
         complexity |-> Complexity(Len(ss)),
         estimated_mold_size |->
             [width |-> FAdd(FAdd(bbox.dx, 2 * max_stroke),
                             frame_allowance * CoordOne),
              depth |-> FAdd(FAdd(bbox.dy, 2 * max_stroke),
                             frame_allowance * CoordOne),
              height |-> FAdd(bbox.dz, height_allowance * CoordOne)],
         parting_z |-> pz,
         max_stroke |-> max_stroke]

\* ------- specification: detect_undercuts, then the three steps of
\* ------- analyze_slides

\* the index of the opening axis (0 = X, 1 = Y, 2 = Z)
AxisIndex(dir) == (CHOOSE c \in 1..3 : dir[c] # 0) - 1

\* a planar face of unit normal n, centroid c (mm) and area a (mm^2), as the
\* kernel answers for it
SlideFace(c, n, a) ==
    [surface_type |-> GeomAbs_Plane, area |-> a,
     center |-> <<c[1] * CoordOne, c[2] * CoordOne, c[3] * CoordOne>>,
     u_min |-> 0, u_max |-> UMax, u_break |-> 0, n_lo |-> n, n_hi |-> n]

\* analyze_face of such a face: the one sample of a plane
PlanarResult(face, dir) ==
    LET normals == <<Normalize(face.n_lo)>>
        raw_dots == RawDots(normals, dir)
        draft_angles == DraftAngles(raw_dots)
        min_draft == SeqMin(draft_angles)
        avg_draft == AvgDraft(draft_angles)
    IN  [surface_type |-> surface_type_name(face.surface_type),
         area |-> face.area,
         min_draft |-> min_draft, max_draft |-> SeqMax(draft_angles),
         avg_draft |-> avg_draft,
         draft_category |-> Category(min_draft, avg_draft),
         is_undercut |-> MixedNormals(raw_dots, avg_draft),
         center |-> face.center,
         normals |-> normals]

\* analyze_all_faces of a list of such faces
PlanarResults(fs, dir) ==
    [k \in 1..Len(fs) |-> WithFaceId(PlanarResult(fs[k], dir), k - 1)]

\* unit normals: along +Y, 10 degrees off +Y towards +X, -Y, +X, -X
NormalYp == <<0, NormalOne, 0>>
NormalY10 == <<178, 1008, 0>>
NormalYm == <<0, -NormalOne, 0>>
NormalXp == <<NormalOne, 0, 0>>
NormalXm == <<-NormalOne, 0, 0>>

\* side faces along the x axis at 0, 18, 23 and 50 mm, a face of opposite
\* normal at the origin, and two faces across x, back to back 8 mm apart,
\* one of them 3 mm above the others
NearFaces ==
    { SlideFace(<<0, 0, 0>>, NormalYp, 50),
      SlideFace(<<18, 0, 0>>, NormalYp, 50),
      SlideFace(<<23, 0, 0>>, NormalY10, 500),
      SlideFace(<<50, 0, 0>>, NormalYp, 450),
      SlideFace(<<0, 0, 0>>, NormalYm, 500),
      SlideFace(<<8, 0, 3>>, NormalXp, 500),
      SlideFace(<<0, 0, 0>>, NormalXm, 50) }

\* the k-th of a row of side faces 100 mm apart, of growing area
FarFace(k) == SlideFace(<<100 * (k - 1), 0, 0>>, NormalYp, 50 + 10 * k)

\* the greatest number of faces in the row
MaxSlides == 5

\* the near faces whose centroid is the origin
OriginFaces == {f \in NearFaces : f.center = ZeroVec}

\* Bnd_Box.Get() of the shapes, in mm: a box around the near faces, one of
\* zero extent around the origin, and a box around the row
NearBoxMm == <<-10, -10, -10, 60, 10, 10>>
FlatBoxMm == <<0, 0, 0, 0, 0, 0>>
FarBoxMm == <<-10, -10, -10, 100 * MaxSlides, 10, 10>>

BoxOfMm(b) == [c \in 1..6 |-> b[c] * CoordOne]

\* the longest list of near faces under an opening direction
MaxNear(dir) == IF dir = <<0, 0, 1>> THEN MaxFaces + 1 ELSE MaxFaces

\* the state after analyze_all_faces: a list of the near faces in the box
\* around them, or of the faces at the origin in the box of zero extent,
\* under each opening direction; or a row of up to MaxSlides far faces under
\* the default direction
InitSlides ==
    /\ pc = "analyzed"
    /\ n_samples = 0
    /\ \/ /\ opening_dir \in AxisDirs
          /\ \E n \in 0..MaxNear(opening_dir) :
             \E fs \in ListsOf(NearFaces, n) :
                shape = [box |-> BoxOfMm(NearBoxMm), faces |-> fs,
                         edges |-> <<>>]
       \/ /\ opening_dir \in AxisDirs
          /\ \E n \in 1..MaxFaces : \E fs \in ListsOf(OriginFaces, n) :
                shape = [box |-> BoxOfMm(FlatBoxMm), faces |-> fs,
                         edges |-> <<>>]
       \/ /\ opening_dir = None
          /\ \E n \in 0..MaxSlides :
                shape = [box |-> BoxOfMm(FarBoxMm),
                         faces |-> [k \in 1..n |-> FarFace(k)],
                         edges |-> <<>>]
    /\ faces = shape.faces
    /\ face_results = PlanarResults(faces, DefaultDir(opening_dir))
    /\ parting_z = 0
    /\ undercuts = <<>>
    /\ parting_info = <<>>
    /\ thickness_data = <<>>
    /\ axis_index = AxisIndex(DefaultDir(opening_dir))
    /\ groups = <<>>
    /\ slides = <<>>
    /\ mold_layout = <<>>
    /\ NotFromMain

CallGroupUndercuts ==
    /\ pc = "detected"
    /\ groups' = group_undercuts(undercuts, face_results, axis_index)
    /\ pc' = "grouped"
    /\ UNCHANGED <<opening_dir, n_samples, faces, face_results, parting_z,
                   undercuts, shape, parting_info, thickness_data,
                   axis_index, slides, mold_layout, input_file, summary,
                   error>>

CallAnalyzeSlideCores ==
    /\ pc = "grouped"
    /\ slides' = analyze_slide_cores(groups, get_bounding_box(shape),
                                     parting_z, axis_index)
    /\ pc' = "planned"
    /\ UNCHANGED <<opening_dir, n_samples, faces, face_results, parting_z,
                   undercuts, shape, parting_info, thickness_data,
                   axis_index, groups, mold_layout, input_file, summary,
                   error>>

CallGenerateMoldLayout ==
    /\ pc = "planned"
    /\ mold_layout' = generate_mold_layout(slides, get_bounding_box(shape),
                                           parting_z)
    /\ pc' = "laid_out"
    /\ UNCHANGED <<opening_dir, n_samples, faces, face_results, parting_z,
                   undercuts, shape, parting_info, thickness_data,
                   axis_index, groups, slides, input_file, summary, error>>

NextSlides ==
    \/ CallDetectUndercuts
    \/ CallGroupUndercuts
    \/ CallAnalyzeSlideCores
    \/ CallGenerateMoldLayout

SpecSlides == InitSlides /\ [][NextSlides]_vars

\* ------------------------------------------------------------- summarize

\* the results with at least one sampled normal
WithNormals(results) == SelectSeq(results, LAMBDA r : Len(r.normals) > 0)

summarize(results) ==
    LET sampled == WithNormals(results)
        all_drafts == [k \in 1..Len(sampled) |-> sampled[k].avg_draft]
        weighted_sum ==
            FSum([k \in 1..Len(sampled) |->
                     RoundRat(sampled[k].avg_draft * sampled[k].area, 1)])
        weighted_area == FSum([k \in 1..Len(sampled) |-> sampled[k].area])
    IN  [total_faces |-> Len(results),
         categories |-> CountsBy(results, LAMBDA r : r.draft_category),
         surface_types |-> CountsBy(results, LAMBDA r : r.surface_type),
         total_area |-> FSum([k \in 1..Len(results) |-> results[k].area]),
         min_draft_overall |->
             IF Len(all_drafts) > 0 THEN SeqMin(all_drafts) ELSE 0,
         max_draft_overall |->
             IF Len(all_drafts) > 0 THEN SeqMax(all_drafts) ELSE 0,
         avg_draft_overall |->
             IF Len(all_drafts) > 0
             THEN FDiv(FSum(all_drafts), Len(all_drafts)) ELSE 0,
         weighted_avg_draft |->
             IF weighted_area > 0
             THEN RoundRat(weighted_sum, weighted_area) ELSE 0]

\* --------------------------------------------------- specification: main()

\* what args.input names: no file, a file whose extension no reader takes, a
\* file its reader fails on, or a file holding a solid
NoFile == [kind |-> "missing", solid |-> NoShape]
UnsupportedFile == [kind |-> "unsupported", solid |-> NoShape]
UnreadableFile == [kind |-> "unreadable", solid |-> NoShape]
SolidFile(sh) == [kind |-> "solid", solid |-> sh]

\* the state at the entry of main(): --axis is x, y or z
InitMain ==
    /\ pc = "main"
    /\ opening_dir \in AxisDirs
    /\ n_samples = 0
    /\ \/ input_file \in {NoFile, UnsupportedFile, UnreadableFile}
       \/ \E n \in 0..MaxFaces : \E fs \in ListsOf(SmallFaces, n) :
             input_file = SolidFile([box |-> BoxOfMm(NearBoxMm),
                                     faces |-> fs, edges |-> <<>>])
    /\ faces = <<>>
    /\ face_results = <<>>
    /\ parting_z = 0
    /\ undercuts = <<>>
    /\ shape = NoShape
    /\ parting_info = <<>>
    /\ thickness_data = <<>>
    /\ axis_index = 2
    /\ groups = <<>>
    /\ slides = <<>>
    /\ mold_layout = <<>>
    /\ summary = <<>>
    /\ error = "none"

\* if not os.path.exists(args.input): sys.exit(1)
CheckInputExists ==
    /\ pc = "main"
    /\ IF input_file.kind = "missing"
       THEN error' = "SystemExit" /\ pc' = "aborted"
       ELSE error' = error /\ pc' = "exists"
    /\ UNCHANGED <<opening_dir, n_samples, faces, face_results, parting_z,
                   undercuts, shape, parting_info, thickness_data,
                   axis_index, groups, slides, mold_layout, input_file,
                   summary>>

\* step 1: read_cad_file raises ValueError for an extension it does not know
\* and for a file its reader fails on; otherwise extract_faces lists the faces
CallReadCadFile ==
    /\ pc = "exists"
    /\ IF input_file.kind = "solid"
       THEN /\ shape' = input_file.solid
            /\ faces' = input_file.solid.faces
            /\ error' = error
            /\ pc' = "start"
       ELSE /\ error' = "ValueError"
            /\ pc' = "aborted"
            /\ UNCHANGED <<shape, faces>>
    /\ UNCHANGED <<opening_dir, n_samples, face_results, parting_z,
                   undercuts, parting_info, thickness_data, axis_index,
                   groups, slides, mold_layout, input_file, summary>>

\* step 2, after analyze_all_faces: summary = summarize(face_results)
CallSummarize ==
    /\ pc = "analyzed"
    /\ summary' = summarize(face_results)
    /\ pc' = "summarized"
    /\ UNCHANGED <<opening_dir, n_samples, faces, face_results, parting_z,
                   undercuts, shape, parting_info, thickness_data,
                   axis_index, groups, slides, mold_layout, input_file,
                   error>>

\* step 3: from core.analysis import estimate_parting_line,
\* axis_index_from_dir; core.analysis defines no axis_index_from_dir, the
\* import raises and nothing in main() catches it
ImportPartingLine ==
    /\ pc = "summarized"
    /\ error' = "ImportError"
    /\ pc' = "aborted"
    /\ UNCHANGED <<opening_dir, n_samples, faces, face_results, parting_z,
                   undercuts, shape, parting_info, thickness_data,
                   axis_index, groups, slides, mold_layout, input_file,
                   summary>>

NextMain ==
    \/ CheckInputExists
    \/ CallReadCadFile
    \/ CallAnalyzeAllFaces
    \/ CallSummarize
    \/ ImportPartingLine

SpecMain == InitMain /\ [][NextMain]_vars

\* ================================================================ claims

\* every sample of the face's grid has a normal below the tolerance
NoValidSample(face, n_arg) ==
    LET n == GridSize(face.surface_type, n_arg)
    IN  \A i \in 0..(n - 1) :
           LET u == SampleU(face, i, n)
           IN  Magnitude(FaceNormal(face, u[1], u[2])) < NormalTol

\* ----------------------------------------------------------------- C1

\* C1: analyze_all_faces returns one result per input face, in input order:
\* result k carries face_id k - 1 and the area, centroid and surface type of
\* face k; a face without a valid sample has its result too, of category
\* unknown, and the list is not shortened.
C1_OneResultPerFace ==
    pc # "start" =>
        /\ Len(face_results) = Len(faces)
        /\ \A k \in 1..Len(faces) :
              /\ face_results[k].face_id = k - 1
              /\ face_results[k].area = faces[k].area
              /\ face_results[k].center = faces[k].center
              /\ face_results[k].surface_type
                    = surface_type_name(faces[k].surface_type)
              /\ NoValidSample(faces[k], 0)
                    => face_results[k].draft_category = "unknown"

\* a list of two different faces, the first without a valid sample, analyzed
C1_Witness ==
    /\ pc = "analyzed"
    /\ Len(faces) = 2
    /\ faces[1].area # faces[2].area
    /\ NoValidSample(faces[1], 0)
    /\ face_results[1].draft_category = "unknown"
    /\ face_results[2].draft_category # "unknown"

\* ----------------------------------------------------------------- C2

\* C2: for a face with a valid sample the category follows from (min_draft,
\* avg_draft) by the ordered rule: avg > 85 horizontal; else min >= 3 good;
\* else min >= 1 marginal; else min >= 0.1 insufficient; else zero.  So
\* min_draft = 0 is zero unless avg_draft > 85.
C2_CategoryRule ==
    (pc = "done" /\ Len(face_results[1].normals) > 0) =>
        LET r == face_results[1]
            lo == r.min_draft
            c == r.draft_category
        IN  /\ r.avg_draft > 85 * AngleOne => c = "horizontal"
            /\ r.avg_draft <= 85 * AngleOne =>
                  /\ lo >= 3 * AngleOne => c = "good"
                  /\ (lo < 3 * AngleOne /\ lo >= AngleOne) => c = "marginal"
                  /\ (lo < AngleOne /\ 10 * lo >= AngleOne)
                        => c = "insufficient"
                  /\ 10 * lo < AngleOne => c = "zero"
                  /\ lo = 0 => c = "zero"

\* a face of draft 90 everywhere: horizontal although min_draft >= 3
C2_Witness ==
    /\ pc = "done"
    /\ Len(face_results[1].normals) > 0
    /\ face_results[1].avg_draft > 85 * AngleOne
    /\ face_results[1].min_draft >= 3 * AngleOne
    /\ face_results[1].draft_category = "horizontal"

\* ----------------------------------------------------------------- C3

\* the draft angles of the samples of a result, from its normals
SampleDrafts(r, dir) == DraftAngles(RawDots(r.normals, dir))

\* C3 as stated: every result has 0 <= min_draft <= avg_draft <= max_draft
\* <= 90.
C3_MinAvgMaxChain ==
    pc = "done" =>
        LET r == face_results[1]
        IN  /\ 0 <= r.min_draft
            /\ r.min_draft <= r.avg_draft
            /\ r.avg_draft <= r.max_draft
            /\ r.max_draft <= 90 * AngleOne

\* C3, amended: every sample's draft angle lies in [0, 90]; min_draft and
\* max_draft are the least and the greatest of them, so 0 <= min_draft <=
\* max_draft <= 90; avg_draft, the rounded quotient of the rounded sum, lies
\* in [0, 90] but not always between min_draft and max_draft.
C3_DraftRange ==
    pc = "done" =>
        LET r == face_results[1]
            drafts == SampleDrafts(r, opening_dir)
        IN  /\ \A k \in 1..Len(drafts) :
                  /\ 0 <= drafts[k] /\ drafts[k] <= 90 * AngleOne
                  /\ r.min_draft <= drafts[k] /\ drafts[k] <= r.max_draft
            /\ Len(drafts) > 0 =>
                  /\ \E k \in 1..Len(drafts) : drafts[k] = r.min_draft
                  /\ \E k \in 1..Len(drafts) : drafts[k] = r.max_draft
            /\ 0 <= r.min_draft /\ r.min_draft <= r.max_draft
            /\ r.max_draft <= 90 * AngleOne
            /\ 0 <= r.avg_draft /\ r.avg_draft <= 90 * AngleOne

\* samples of one and the same draft angle whose average exceeds it
C3_Witness ==
    /\ pc = "done"
    /\ Len(face_results[1].normals) > 1
    /\ face_results[1].min_draft = face_results[1].max_draft
    /\ face_results[1].avg_draft > face_results[1].max_draft

\* ----------------------------------------------------------------- C4

\* C4: a face whose samples all have a normal below the tolerance gets a
\* well-formed result: category unknown, min, avg and max draft 0, flag
\* false, no normals; and only such a face gets category unknown.
C4_UnknownIffNoValidSample ==
    pc = "done" =>
        LET r == face_results[1]
            face == faces[1]
        IN  /\ NoValidSample(face, n_samples) =>
                  /\ r.draft_category = "unknown"
                  /\ r.min_draft = 0 /\ r.avg_draft = 0 /\ r.max_draft = 0
                  /\ r.is_undercut = FALSE
                  /\ r.normals = <<>>
                  /\ r.area = face.area /\ r.center = face.center
                  /\ r.surface_type = surface_type_name(face.surface_type)
            /\ r.draft_category = "unknown" => NoValidSample(face, n_samples)

\* a face of an explicit 2 x 2 grid without a valid sample, analyzed
C4_Witness ==
    /\ pc = "done"
    /\ n_samples = 2
    /\ NoValidSample(faces[1], n_samples)
    /\ face_results[1].draft_category = "unknown"
    /\ face_results[1].normals = <<>>

\* ----------------------------------------------------------------- C5

\* the entries of the output for the face of position k
EntriesOf(k) ==
    {j \in 1..Len(undercuts) : undercuts[j].face_id = k - 1}

\* the valid samples are all perpendicular to the opening direction
PerpendicularEverywhere(r, dir) ==
    /\ Len(r.normals) > 0
    /\ \A i \in 1..Len(r.normals) : Dot(r.normals[i], dir) = 0

\* C5 (Scenario A): for every opening axis, parting coordinate and centroid,
\* a face whose normal is perpendicular to the opening axis at every sample
\* has draft 0 at every sample, category zero, and is in the output of
\* detect_undercuts with the draft-shortage reason.
C5_ScenarioA ==
    pc = "detected" =>
        \A k \in 1..Len(face_results) :
            LET r == face_results[k]
            IN  PerpendicularEverywhere(r, DefaultDir(opening_dir)) =>
                   /\ r.min_draft = 0 /\ r.max_draft = 0 /\ r.avg_draft = 0
                   /\ r.draft_category = "zero"
                   /\ \E j \in EntriesOf(k) :
                         undercuts[j].reason = DraftShortageReason(0)

\* ----------------------------------------------------------------- C6

\* the valid samples are all parallel to the opening direction
ParallelEverywhere(r, dir) ==
    /\ Len(r.normals) > 0
    /\ \A i \in 1..Len(r.normals) : Abs(Dot(r.normals[i], dir)) = NormalOne

\* C6: no entry of the output is of a face without a valid sample or of
\* avg_draft > 80, whatever the parting coordinate, the centroid and the
\* face's flag.  Scenario B: a planar face whose normal is parallel to the
\* opening axis has draft 90 and category horizontal and is not in the output.
C6_SkippedNeverEmitted ==
    pc = "detected" =>
        /\ \A j \in 1..Len(undercuts) :
              LET r == face_results[undercuts[j].face_id + 1]
              IN  /\ Len(r.normals) > 0
                  /\ r.avg_draft <= 80 * AngleOne
        /\ \A k \in 1..Len(face_results) :
              LET r == face_results[k]
              IN  (/\ faces[k].surface_type = GeomAbs_Plane
                   /\ ParallelEverywhere(r, DefaultDir(opening_dir))) =>
                     /\ r.avg_draft = 90 * AngleOne
                     /\ r.draft_category = "horizontal"
                     /\ EntriesOf(k) = {}

\* a face without a valid sample and a horizontal face that is not at the
\* parting coordinate, both scanned and neither reported
C6_Witness ==
    /\ pc = "detected"
    /\ Len(faces) = 2
    /\ face_results[1].normals = <<>>
    /\ faces[2].surface_type = GeomAbs_Plane
    /\ ParallelEverywhere(face_results[2], DefaultDir(opening_dir))
    /\ face_results[2].center[3] > parting_z
    /\ undercuts = <<>>

\* ----------------------------------------------------------------- C7

\* the three rules of detect_undercuts, as the code reads them: the centroid
\* and the average normal by their third coordinate
CavitySide(r) ==
    /\ r.center[3] > parting_z
    /\ 10 * AvgNz(r.normals) < -NormalOne
    /\ r.avg_draft < 45 * AngleOne

CoreSide(r) ==
    /\ r.center[3] < parting_z
    /\ 10 * AvgNz(r.normals) > NormalOne
    /\ r.avg_draft < 45 * AngleOne

DraftShort(r) == 2 * r.avg_draft < AngleOne

ReasonKinds == {"Cavity", "Core", "DraftShortage", "MixedNormals"}

\* C7: every entry of the output has one reason, the first that applies of:
\* cavity side (centroid above the parting coordinate, average normal down,
\* avg_draft < 45); core side (centroid below, average normal up, avg_draft
\* < 45); draft shortage (avg_draft < 0.5), only if neither of these two
\* matched; mixed normals, only if none of the three matched and the face's
\* flag is set.
C7_OneReasonInOrder ==
    pc = "detected" =>
        \A j \in 1..Len(undercuts) :
            LET r == face_results[undercuts[j].face_id + 1]
                kind == undercuts[j].reason[1]
            IN  /\ Len(undercuts[j].reason) >= 1
                /\ kind \in ReasonKinds
                /\ kind = "Cavity" <=> CavitySide(r)
                /\ kind = "Core" <=> (~CavitySide(r) /\ CoreSide(r))
                /\ kind = "DraftShortage" <=>
                      (~CavitySide(r) /\ ~CoreSide(r) /\ DraftShort(r))
                /\ kind = "MixedNormals" <=>
                      (/\ ~CavitySide(r) /\ ~CoreSide(r) /\ ~DraftShort(r)
                       /\ r.is_undercut)
                /\ kind = "DraftShortage" =>
                      undercuts[j].reason = DraftShortageReason(r.avg_draft)

\* opening axis Z: a face with the flag set for which the cavity rule fired
\* is reported with the cavity reason
C7_Witness ==
    /\ pc = "detected"
    /\ DefaultDir(opening_dir) = <<0, 0, 1>>
    /\ \E j \in 1..Len(undercuts) :
          /\ undercuts[j].reason = CavityReason
          /\ face_results[undercuts[j].face_id + 1].is_undercut

\* ----------------------------------------------------------------- C8

\* the face is passed over by the two skips of the loop
Skipped(r) == Len(r.normals) = 0 \/ r.avg_draft > 80 * AngleOne

\* one of the three rules matched
RuleFired(r) == CavitySide(r) \/ CoreSide(r) \/ DraftShort(r)

\* C8: the output holds, of the faces that are not skipped, those for which
\* a rule fired or whose flag is set, and no other; each face id at most
\* once; in the order of face_results; each entry with its face's data.
C8_UnionNoDuplicates ==
    pc = "detected" =>
        /\ \A i, j \in 1..Len(undercuts) :
              i < j => undercuts[i].face_id < undercuts[j].face_id
        /\ \A j \in 1..Len(undercuts) :
              undercuts[j].face_id \in 0..(Len(face_results) - 1)
        /\ \A k \in 1..Len(face_results) :
              LET r == face_results[k]
              IN  /\ EntriesOf(k) # {} <=>
                        (~Skipped(r) /\ (RuleFired(r) \/ r.is_undercut))
                  /\ \A j \in EntriesOf(k) :
                        /\ undercuts[j].center = r.center
                        /\ undercuts[j].avg_draft = r.avg_draft
                        /\ undercuts[j].area = r.area
                        /\ undercuts[j].surface_type = r.surface_type

\* a face reported for its flag alone, no rule having fired
C8_Witness ==
    /\ pc = "detected"
    /\ \E j \in 1..Len(undercuts) :
          LET r == face_results[undercuts[j].face_id + 1]
          IN  r.is_undercut /\ ~RuleFired(r)

\* ----------------------------------------------------------------- C9

\* the edges of the shape the silhouette pass samples
SilhouetteEdges(sh, dir) ==
    {k \in 1..Len(sh.edges) :
        /\ Len(sh.edges[k].adjacent) = 2
        /\ sh.edges[k].curve_ok
        /\ IsSilhouette(sh.edges[k], sh.faces, dir)}

\* a kernel call of the silhouette pass raises
KernelRaises(sh) ==
    \E k \in 1..Len(sh.edges) :
        Len(sh.edges[k].adjacent) = 2 /\ ~sh.edges[k].curve_ok

RECURSIVE SumZ(_, _)
SumZ(points, k) ==
    IF k > Len(points) THEN 0 ELSE points[k][3] + SumZ(points, k + 1)

\* z is the mean of the points' third coordinates, to the nearest unit
IsMeanZ(z, points) ==
    /\ Len(points) > 0
    /\ 2 * Abs(z * Len(points) - SumZ(points, 1)) <= Len(points)

\* C9: estimate_parting_line returns a result whatever the silhouette pass
\* does: if it finds no silhouette edge (fewer than 3 points) or a kernel
\* call raises in it, parting_method is histogram; parting_method is
\* silhouette exactly when the parting coordinate returned is the mean of
\* the silhouette points collected.
C9_SilhouetteOrHistogram ==
    pc = "estimated" =>
        LET dir == DefaultDir(opening_dir)
            info == parting_info
        IN  /\ info.parting_method \in {"silhouette", "histogram"}
            /\ (SilhouetteEdges(shape, dir) = {} \/ KernelRaises(shape)) =>
                  /\ info.parting_method = "histogram"
                  /\ info.silhouette_points = <<>>
            /\ info.parting_method = "silhouette" <=>
                  IsMeanZ(info.parting_z, info.silhouette_points)
            /\ info.parting_method = "silhouette" =>
                  Len(info.silhouette_points)
                     = (n_pts + 1) * Cardinality(SilhouetteEdges(shape, dir))

\* a silhouette edge sampled, then an edge on which the kernel raises: the
\* histogram method answers
C9_Witness ==
    /\ pc = "estimated"
    /\ Len(shape.edges) = 2
    /\ 1 \in SilhouetteEdges(shape, DefaultDir(opening_dir))
    /\ ~shape.edges[2].curve_ok
    /\ parting_info.parting_method = "histogram"

\* ---------------------------------------------------------------- C10

\* 1, 2 or 3: the coordinate the opening direction points along
AxisOf(dir) == CHOOSE c \in 1..3 : dir[c] # 0

\* C10: a parting coordinate from the histogram method lies within the
\* bounding box along the opening axis, for every opening axis and every
\* bounding box, one of zero extent along the axis included.
C10_HistogramWithinBox ==
    (pc = "estimated" /\ parting_info.parting_method = "histogram") =>
        LET c == AxisOf(DefaultDir(opening_dir))
        IN  /\ shape.box[c] <= parting_info.parting_z
            /\ parting_info.parting_z <= shape.box[c + 3]

\* ---------------------------------------------------------------- C11

\* C11: thickness_ratio is max/min when the global min thickness is above
\* 0.01 and max/0.01 otherwise, the case of no sample (min = max = 0, ratio
\* 0) included; the divisor is never zero.
C11_ThicknessRatio ==
    pc = "measured" =>
        LET d == thickness_data
            lo == d.min_thickness
            hi == d.max_thickness
        IN  /\ 100 * lo > ThickOne =>
                  d.thickness_ratio = RoundRat(hi * RatioOne, lo)
            /\ 100 * lo <= ThickOne =>
                  d.thickness_ratio = RoundRat(hi * RatioOne * 100, ThickOne)
            /\ d.total_samples = 0 =>
                  lo = 0 /\ hi = 0 /\ d.thickness_ratio = 0

\* faces measured without one successful sample: ratio 0 / 0.01
C11_Witness ==
    /\ pc = "measured"
    /\ Len(faces) > 0
    /\ n_samples > 0
    /\ thickness_data.total_samples = 0
    /\ thickness_data.min_thickness = 0
    /\ thickness_data.thickness_ratio = 0

\* ---------------------------------------------------------------- C12

\* the samples of the face's grid that record a thickness: normal not
\* degenerate, no raise, a hit farther than 3 x OFFSET
SuccessfulSamples(face, n) ==
    {k \in 1..(n * n) :
        LET u == SampleU(face, (k - 1) \div n, n)
            ray == RayOf(face, u[1], u[2])
        IN  /\ ~(Magnitude(FaceNormal(face, u[1], u[2])) < NormalTol)
            /\ ~ray.raises
            /\ \E h \in 1..Len(ray.w) : ray.w[h] + OFFSET > 3 * OFFSET}

RECURSIVE SumSamples(_, _)
SumSamples(fts, k) ==
    IF k > Len(fts) THEN 0 ELSE fts[k].samples + SumSamples(fts, k + 1)

\* C12: one FaceThickness record per input face, in order; a face without a
\* successful sample has min, max, avg thickness 0 and samples 0 and adds
\* nothing to the global figures: total_samples is the sum of the faces'
\* sample counts, and the global min and max are the least and the greatest
\* of those of the faces that have samples (never 0 for such a face's sake).
C12_OneRecordPerFace ==
    pc = "measured" =>
        LET d == thickness_data
            fts == d.face_thicknesses
            sampled == {k \in 1..Len(fts) : fts[k].samples > 0}
        IN  /\ Len(fts) = Len(faces)
            /\ \A k \in 1..Len(fts) :
                  /\ fts[k].face_id = k - 1
                  /\ fts[k].samples
                        = Cardinality(SuccessfulSamples(faces[k], n_samples))
                  /\ fts[k].samples = 0 =>
                        /\ fts[k].min_thickness = 0
                        /\ fts[k].max_thickness = 0
                        /\ fts[k].avg_thickness = 0
                  /\ fts[k].samples > 0 => fts[k].min_thickness > 3 * OFFSET
            /\ d.total_samples = SumSamples(fts, 1)
            /\ sampled # {} =>
                  /\ \E k \in sampled : d.min_thickness = fts[k].min_thickness
                  /\ \A k \in sampled : d.min_thickness <= fts[k].min_thickness
                  /\ \E k \in sampled : d.max_thickness = fts[k].max_thickness
                  /\ \A k \in sampled : d.max_thickness >= fts[k].max_thickness
                  /\ d.min_thickness > 0
            /\ sampled = {} => d.min_thickness = 0 /\ d.max_thickness = 0

\* a face without a successful sample before a face with samples
C12_Witness ==
    /\ pc = "measured"
    /\ Len(faces) = 2
    /\ thickness_data.face_thicknesses[1].samples = 0
    /\ thickness_data.face_thicknesses[2].samples > 0
    /\ thickness_data.total_samples
          = thickness_data.face_thicknesses[2].samples
    /\ thickness_data.min_thickness > 0

\* ---------------------------------------------------------------- C13

WarningKinds(d) == {d.warnings[k][1] : k \in 1..Len(d.warnings)}

\* C13: with a successful sample, the warnings hold the fill-risk warning
\* exactly when the global min < 0.8, the sink-mark warning exactly when the
\* global max > 4.0 and the shrinkage warning exactly when min > 0.01 and
\* max/min > 2, each once; with no successful sample the list is empty.
C13_Warnings ==
    pc = "measured" =>
        LET d == thickness_data
            lo == d.min_thickness
            hi == d.max_thickness
            kinds == WarningKinds(d)
        IN  /\ d.total_samples > 0 =>
                  /\ "FillRisk" \in kinds <=> 10 * lo < 8 * ThickOne
                  /\ "SinkMark" \in kinds <=> hi > 4 * ThickOne
                  /\ "ShrinkRisk" \in kinds <=>
                        (100 * lo > ThickOne /\ hi > 2 * lo)
                  /\ kinds \subseteq {"FillRisk", "SinkMark", "ShrinkRisk"}
                  /\ Len(d.warnings) = Cardinality(kinds)
            /\ d.total_samples = 0 => d.warnings = <<>>

\* a thin wall and a thick wall: the three warnings together
C13_Witness ==
    /\ pc = "measured"
    /\ thickness_data.total_samples > 0
    /\ WarningKinds(thickness_data) = {"FillRisk", "SinkMark", "ShrinkRisk"}

\* ---------------------------------------------------------------- C14

RECURSIVE SumBins(_, _)
SumBins(bins, k) ==
    IF k > Len(bins) THEN 0 ELSE bins[k] + SumBins(bins, k + 1)

\* C14: whenever a thickness sample was recorded, the result has a histogram
\* of 10 bins over [min, max] whose counts sum to the number of samples,
\* also when all samples have the same thickness.
C14_HistogramWhenSampled ==
    (pc = "measured" /\ thickness_data.total_samples > 0) =>
        LET d == thickness_data
        IN  /\ d.histogram # <<>>
            /\ Len(d.histogram.bins) = thickness_n_bins
            /\ d.histogram.min = d.min_thickness
            /\ d.histogram.max = d.max_thickness
            /\ SumBins(d.histogram.bins, 1) = d.total_samples

\* the slides are those of analyze_slide_cores from the step "planned" on
Planned == pc \in {"planned", "laid_out"}

\* C15: every slide emitted by analyze_slide_cores has an undercut depth of
\* at least 2 mm and a stroke of at least the depth plus 3 mm, also for a
\* group of a single face, whose projections are all 0
C15_DepthAndStroke ==
    Planned =>
        \A k \in 1..Len(slides) :
            /\ slides[k].undercut_depth >= 2 * CoordOne
            /\ slides[k].stroke >= slides[k].undercut_depth + 3 * CoordOne

\* a slide of a single face next to a slide whose faces lie 4 mm from their
\* centroid along the slide direction
C15_Witness ==
    /\ Planned
    /\ \E k \in 1..Len(slides) :
          /\ slides[k].face_count = 1
          /\ slides[k].undercut_depth = 2 * CoordOne
          /\ slides[k].stroke = 5 * CoordOne
    /\ \E k \in 1..Len(slides) :
          /\ slides[k].face_count = 2
          /\ slides[k].undercut_depth = 4 * CoordOne
          /\ slides[k].stroke = 7 * CoordOne

\* the two components of v off the axis: one of them +-1 and the other 0, or
\* both +-1/sqrt(2)
IsCanonical(v, axis) ==
    LET a == Abs(v[((axis + 1) % 3) + 1])
        b == Abs(v[((axis + 2) % 3) + 1])
    IN  /\ v[axis + 1] = 0
        /\ \/ a = NormalOne /\ b = 0
           \/ a = 0 /\ b = NormalOne
           \/ a = Diag /\ b = Diag

\* the group of the slide k: its id is the position of the group, from 1
GroupOfSlide(k) == groups[slides[k].id]

\* the mean normal of the group has nothing left across the opening axis
DefaultUsed(k) ==
    Magnitude(Projected(MeanVec(GroupNormals(GroupOfSlide(k), 1)),
                        axis_index)) = 0

\* C16: for every opening axis, the direction vector of every slide is one
\* of the 8 canonical directions of that axis, a unit vector with no
\* component along the opening axis, also when the default direction is used
C16_CanonicalDirection ==
    /\ \A axis \in 0..2 :
          /\ Len(CanonicalDirections(axis)) = 8
          /\ Cardinality({CanonicalDirections(axis)[d][2] : d \in 1..8}) = 8
          /\ \A d \in 1..8 : IsCanonical(CanonicalDirections(axis)[d][2], axis)
    /\ Planned =>
          \A k \in 1..Len(slides) :
              /\ IsCanonical(slides[k].direction_vector, axis_index)
              /\ Magnitude(slides[k].direction_vector) = NormalOne
              /\ slides[k].direction_vector[axis_index + 1] = 0

\* a slide of the default direction next to a slide whose own direction is
\* 10 degrees off its canonical direction
C16_Witness ==
    /\ Planned
    /\ \E k \in 1..Len(slides) :
          /\ DefaultUsed(k)
          /\ slides[k].direction_vector = DefaultSlideDir(axis_index)
    /\ \E k \in 1..Len(slides) :
          /\ ~DefaultUsed(k)
          /\ slides[k].slide_dir_raw # slides[k].direction_vector
          /\ slides[k].direction_vector = NormalYp

\* the groups are those of group_undercuts from the step "grouped" on
Grouped == pc \in {"grouped", "planned", "laid_out"}

\* the group holding the undercut at position i of the input
GroupAt(i) ==
    CHOOSE g \in 1..Len(groups) :
        \E m \in 1..Len(groups[g]) : groups[g][m].face_id = undercuts[i].face_id

SameGroup(i, j) == GroupAt(i) = GroupAt(j)

\* the position in the input of the seed of the group holding i
SeedAt(i) ==
    CHOOSE s \in 1..Len(undercuts) :
        undercuts[s].face_id = groups[GroupAt(i)][1].face_id

\* the squared distance of the centroids, in mm^2, when it is whole
DistSquared(i, j) ==
    LET d == VSub(undercuts[i].center, undercuts[j].center)
    IN  d[1] * d[1] + d[2] * d[2] + d[3] * d[3]

\* the horizontal direction of the undercut at position i
HorizontalAt(i) ==
    HorizontalDir(NormalsOf(face_results, undercuts[i].face_id), axis_index)

\* 5 mm apart and horizontal directions 10 degrees apart, to half a degree
ScenarioCPair(i, j) ==
    /\ DistSquared(i, j) = (5 * CoordOne) * (5 * CoordOne)
    /\ Magnitude(HorizontalAt(i)) = NormalOne
    /\ Magnitude(HorizontalAt(j)) = NormalOne
    /\ LET dot == RoundRat(Dot(HorizontalAt(i), HorizontalAt(j)), NormalOne)
       IN  /\ dot > 0
           /\ 2 * AcosDegrees(Min2(dot, NormalOne)) > 19 * AngleOne
           /\ 2 * AcosDegrees(Min2(dot, NormalOne)) < 21 * AngleOne

\* C17 as stated: two undercut faces 5 mm apart whose horizontal directions
\* differ by 10 degrees are in the same group, whatever the other undercuts
\* and the input order
C17_ScenarioCMerge ==
    Grouped =>
        \A i, j \in 1..Len(undercuts) :
            ScenarioCPair(i, j) => SameGroup(i, j)

\* C17 as the code has it: two such faces are in the same group unless one
\* of them was taken into the group of a seed that comes before both in the
\* input; so they are when they are the only undercuts, in either order
C17_MergeUnlessTakenEarlier ==
    Grouped =>
        \A i, j \in 1..Len(undercuts) :
            ScenarioCPair(i, j) /\ i < j =>
                \/ SameGroup(i, j)
                \/ SeedAt(i) < i
                \/ SeedAt(j) < i

\* such a pair grouped together with a third undercut before it in the input
C17_Witness ==
    /\ Grouped
    /\ Len(undercuts) = 3
    /\ ScenarioCPair(2, 3)
    /\ SameGroup(2, 3)
    /\ Len(groups) = 2

\* C18: two undercut faces whose centroids are 50 mm apart are never in the
\* same group, whatever their directions, the other undercuts and the order
C18_ScenarioCSeparate ==
    Grouped =>
        \A i, j \in 1..Len(undercuts) :
            DistSquared(i, j) = (50 * CoordOne) * (50 * CoordOne)
                => ~SameGroup(i, j)

\* two faces 50 mm apart around a seed between them that takes one of them
C18_Witness ==
    /\ Grouped
    /\ Len(undercuts) = 3
    /\ DistSquared(2, 3) = (50 * CoordOne) * (50 * CoordOne)
    /\ SameGroup(1, 2)
    /\ ~SameGroup(1, 3)
    /\ undercuts[1].center # undercuts[2].center

\* C19 as stated: for every bounding box, a group whose centroid is exactly
\* at the parting coordinate along the opening axis is a lifter when its
\* total area is 50 mm^2 and lifter_or_slide when it is 500 mm^2
C19_ScenarioD ==
    Planned =>
        \A k \in 1..Len(slides) :
            slides[k].center[axis_index + 1] = parting_z =>
                /\ slides[k].total_area = 50
                      => slides[k].core_type = "lifter"
                /\ slides[k].total_area = 500
                      => slides[k].core_type = "lifter_or_slide"

\* the greatest stroke of the slides, 0 without slides
IsMaxStroke(m) ==
    IF Len(slides) = 0 THEN m = 0
    ELSE /\ \E k \in 1..Len(slides) : slides[k].stroke = m
         /\ \A k \in 1..Len(slides) : slides[k].stroke <= m

\* C20: generate_mold_layout rates the complexity from the number of slides
\* alone (0 Simple, 1-2 Moderate, 3-4 Complex, 5 or more VeryComplex);
\* total_slides is the number of slides and max_stroke their greatest
\* stroke, 0 without slides
C20_LayoutSummary ==
    pc = "laid_out" =>
        /\ mold_layout.total_slides = Len(slides)
        /\ Len(slides) = 0 <=> mold_layout.complexity = "Simple"
        /\ Len(slides) \in 1..2 <=> mold_layout.complexity = "Moderate"
        /\ Len(slides) \in 3..4 <=> mold_layout.complexity = "Complex"
        /\ Len(slides) >= 5 <=> mold_layout.complexity = "VeryComplex"
        /\ IsMaxStroke(mold_layout.max_stroke)

\* a layout of five slides or more
C20_Witness ==
    /\ pc = "laid_out"
    /\ Len(slides) >= 5
    /\ mold_layout.total_slides = Len(slides)
    /\ mold_layout.complexity = "VeryComplex"
    /\ mold_layout.max_stroke = 5 * CoordOne

\* the signed dot product of the k-th valid sample of the analysed face
SignedDot(k) ==
    LET n == face_results[1].normals[k]
    IN  n[1] * opening_dir[1] + n[2] * opening_dir[2] + n[3] * opening_dir[3]

\* C22: analyze_face sets the mixed-normal flag exactly when a valid sample
\* has a signed dot above +0.05, another one below -0.05, and avg_draft is
\* below 45; so a face of a single valid sample (a plane under adaptive
\* sampling) and a face of category horizontal never carry it
C22_MixedNormalFlag ==
    pc = "done" =>
        LET r == face_results[1]
            samples == 1..Len(r.normals)
        IN  /\ r.is_undercut <=>
                  /\ \E k \in samples : 20 * SignedDot(k) > NormalOne
                  /\ \E k \in samples : 20 * SignedDot(k) < -NormalOne
                  /\ r.avg_draft < 45 * AngleOne
            /\ Len(r.normals) <= 1 => ~r.is_undercut
            /\ (faces[1].surface_type = GeomAbs_Plane /\ n_samples = 0)
                  => (Len(r.normals) <= 1 /\ ~r.is_undercut)
            /\ r.draft_category = "horizontal" => ~r.is_undercut

\* a flagged face whose normal flips between samples
C22_Witness ==
    /\ pc = "done"
    /\ face_results[1].is_undercut
    /\ Len(face_results[1].normals) >= 2
    /\ \E k \in 1..Len(face_results[1].normals) : 20 * SignedDot(k) > NormalOne
    /\ \E k \in 1..Len(face_results[1].normals) : 20 * SignedDot(k) < -NormalOne

\* the bin, of the n_bins equal bins of the box's extent along the coordinate
\* c, that holds the centroid of result k; the upper bound in the last bin
AxisBin(k, c) ==
    LET lo == shape.box[c]
        extent == shape.box[c + 3] - shape.box[c]
        z == face_results[k].center[c]
    IN  IF z >= shape.box[c + 3] THEN n_bins - 1
        ELSE ((z - lo) * n_bins) \div extent

\* the number of centroids in bin b
AxisCount(b, c) ==
    Cardinality({k \in 1..Len(face_results) : AxisBin(k, c) = b})

\* C23 as stated: in the histogram fallback the centroids are counted into
\* 20 equal bins of the box's extent along the opening axis, the parting
\* coordinate is the centre of the lowest bin of the greatest count, and
\* there is a result whenever there is a centroid
C23_HistogramFallback ==
    (/\ pc = "estimated"
     /\ parting_info.parting_method = "histogram"
     /\ Len(face_results) > 0) =>
        LET c == AxisOf(DefaultDir(opening_dir))
            lo == shape.box[c]
            extent == shape.box[c + 3] - shape.box[c]
        IN  \E b \in 0..(n_bins - 1) :
                /\ \A o \in 0..(n_bins - 1) : AxisCount(o, c) <= AxisCount(b, c)
                /\ \A o \in 0..(b - 1) : AxisCount(o, c) < AxisCount(b, c)
                /\ 2 * n_bins * (parting_info.parting_z - lo)
                      = (2 * b + 1) * extent

\* the hit distances of sample k of a face that are not discarded: the
\* WParameter plus OFFSET, as the program rounds it, when above 3 x OFFSET
KeptDists(face, k, n) ==
    LET u == SampleU(face, (k - 1) \div n, n)
        ray == RayOf(face, u[1], u[2])
    IN  {d \in {RoundRat(ray.w[h] + OFFSET, 1) : h \in 1..Len(ray.w)} :
            d > 3 * OFFSET}

\* the thickness recorded for sample k: the least of the kept distances
Recorded(face, k, n) ==
    CHOOSE d \in KeptDists(face, k, n) : \A e \in KeptDists(face, k, n) : d <= e

\* C24: the thickness recorded for a sample is the least hit distance after
\* the hits within 3 x 0.02 mm are discarded; a sample without a hit, without
\* a hit left, or whose intersection raises is skipped and the other samples
\* of the face are kept; every recorded thickness is above 0.06 mm and at
\* most 500.02 mm
C24_SampleThickness ==
    pc = "measured" =>
        LET fts == thickness_data.face_thicknesses
        IN  \A k \in 1..Len(fts) :
                LET done == SuccessfulSamples(faces[k], n_samples)
                    recorded == {Recorded(faces[k], s, n_samples) : s \in done}
                IN  /\ fts[k].samples = Cardinality(done)
                    /\ \A t \in recorded :
                          /\ t > 3 * OFFSET
                          /\ t <= RayReach * ThickOne + OFFSET
                          /\ fts[k].min_thickness <= t
                          /\ t <= fts[k].max_thickness
                    /\ done # {} =>
                          /\ fts[k].min_thickness \in recorded
                          /\ fts[k].max_thickness \in recorded

\* a face one of whose samples raises and the other records, and a face
\* whose ray has a discarded hit before two kept ones
C24_Witness ==
    /\ pc = "measured"
    /\ \E k \in 1..Len(faces) :
          /\ faces[k].ray_lo = Raising
          /\ faces[k].ray_hi # Raising
          /\ thickness_data.face_thicknesses[k].samples > 0
          /\ thickness_data.face_thicknesses[k].samples < n_samples * n_samples
    /\ \E k \in 1..Len(faces) :
          /\ faces[k].ray_lo = Hits(<<3, 298, 98>>)
          /\ thickness_data.face_thicknesses[k].min_thickness = 98 + OFFSET

\* the squared distance of two centroids
CenterDistSquared(a, b) ==
    (a[1] - b[1]) * (a[1] - b[1]) + (a[2] - b[2]) * (a[2] - b[2])
        + (a[3] - b[3]) * (a[3] - b[3])

\* both horizontal directions are meaningful (norm above 0.1)
BothMeaningful(h, g) == 10 * Magnitude(h) > NormalOne /\ 10 * Magnitude(g) > NormalOne

\* the angle between two unit directions is at most 45 degrees: their dot
\* product is not negative and its arc cosine is at most 45
WithinAngle(h, g) ==
    LET dot == RoundRat(h[1] * g[1] + h[2] * g[2] + h[3] * g[3], NormalOne)
    IN  /\ dot >= 0
        /\ RoundRat(90 * AngleOne - AsinTable[Min2(dot, NormalOne) + 1], 1)
              <= 45 * AngleOne

\* C25 as stated: every member of a group other than its seed is within
\* 20 mm of the seed and, when both directions are meaningful, within 45
\* degrees of the seed's direction; so two undercuts of opposite horizontal
\* directions are not grouped by the seed
C25_MembersNearSeed ==
    Grouped =>
        \A g \in 1..Len(groups) : \A m \in 2..Len(groups[g]) :
            LET seed == groups[g][1]
                member == groups[g][m]
            IN  /\ CenterDistSquared(seed.center, member.center)
                      <= (20 * CoordOne) * (20 * CoordOne)
                /\ BothMeaningful(seed.horizontal_dir, member.horizontal_dir)
                      => WithinAngle(seed.horizontal_dir, member.horizontal_dir)

\* the extent of the shape's box along the opening axis
AxisExtent == shape.box[axis_index + 4] - shape.box[axis_index + 1]

\* the offset of the slide's centroid from the parting coordinate is within
\* 15% of the extent, 15% itself included
Within15(k) ==
    100 * Abs(slides[k].center[axis_index + 1] - parting_z) <= 15 * AxisExtent

\* C26 as stated: a group is near the parting when the offset of its
\* centroid from the parting coordinate along the opening axis is within 15%
\* of the box's extent along it, exactly 15% included; it is a lifter when
\* near and of a total area below 100 mm^2, lifter_or_slide when near and of
\* 100 mm^2 or more, a slide otherwise
C26_Classification ==
    Planned =>
        \A k \in 1..Len(slides) :
            /\ slides[k].near_parting <=> Within15(k)
            /\ slides[k].core_type =
                  IF Within15(k) /\ slides[k].total_area < 100 THEN "lifter"
                  ELSE IF Within15(k) THEN "lifter_or_slide"
                  ELSE "slide"

\* the envelope along the coordinate c: width along x, depth along y, height
\* along z
EnvelopeAlong(c) ==
    IF c = 1 THEN mold_layout.estimated_mold_size.width
    ELSE IF c = 2 THEN mold_layout.estimated_mold_size.depth
    ELSE mold_layout.estimated_mold_size.height

\* C27 as stated: for each of the three opening axes the envelope is the
\* box's extent plus twice the greatest stroke plus 60 on the two axes across
\* the opening axis, and the extent plus 40, with no stroke, along it
C27_MoldEnvelope ==
    pc = "laid_out" =>
        \A c \in 1..3 :
            LET extent == shape.box[c + 3] - shape.box[c]
            IN  EnvelopeAlong(c) =
                    IF c = axis_index + 1
                    THEN extent + 40 * CoordOne
                    ELSE extent + 2 * mold_layout.max_stroke + 60 * CoordOne

\* the undercuts at positions i and j of the input pass the two tests: at
\* most 20 mm apart and, when both directions are meaningful, their lines at
\* most 45 degrees apart
Linked(i, j) ==
    LET h == HorizontalAt(i)
        g == HorizontalAt(j)
    IN  /\ DistSquared(i, j) <= (20 * CoordOne) * (20 * CoordOne)
        /\ BothMeaningful(h, g) =>
              \/ WithinAngle(h, g)
              \/ WithinAngle(h, <<-g[1], -g[2], -g[3]>>)

\* the face ids of the groups of a grouping
FaceIdsOf(gs) ==
    [g \in 1..Len(gs) |-> [m \in 1..Len(gs[g]) |-> gs[g][m].face_id]]

\* A, B, C: A-B and B-C pass the tests, A-C does not
ChainOfThree ==
    /\ Len(undercuts) = 3
    /\ Linked(1, 2) /\ Linked(2, 3) /\ ~Linked(1, 3)

\* C29: group_undercuts depends on the input order and is not transitively
\* closed: for undercuts A, B, C with A-B and B-C within the thresholds and
\* A-C not, the order A, B, C gives the groups {A, B} and {C} and the order
\* B, A, C the single group {B, A, C}
C29_OrderDependent ==
    (Grouped /\ ChainOfThree) =>
        LET a == undercuts[1].face_id
            b == undercuts[2].face_id
            c == undercuts[3].face_id
            swapped == <<undercuts[2], undercuts[1], undercuts[3]>>
        IN  /\ FaceIdsOf(groups) = << <<a, b>>, <<c>> >>
            /\ FaceIdsOf(group_undercuts(swapped, face_results, axis_index))
                  = << <<b, a, c>> >>

\* such A, B, C grouped: faces at 0, 18 and 23 mm
C29_Witness ==
    /\ Grouped
    /\ ChainOfThree
    /\ Len(groups) = 2
    /\ Len(groups[1]) = 2

\* the position in the input of the undercut of a face id
PositionOf(fid) ==
    CHOOSE i \in 1..Len(undercuts) : undercuts[i].face_id = fid

\* the positions in the input of the members of the groups 1..g
TakenBy(g) ==
    {i \in 1..Len(undercuts) :
        \E h \in 1..g : \E m \in 1..Len(groups[h]) :
            groups[h][m].face_id = undercuts[i].face_id}

RECURSIVE CountMembers(_)
CountMembers(g) ==
    IF g = 0 THEN 0 ELSE Len(groups[g]) + CountMembers(g - 1)

\* C30: the groups partition the undercuts: every undercut is in exactly one
\* group, no group is empty, the first element of each group is the earliest
\* undercut of the input not in an earlier group, and there are between 1
\* and Len(undercuts) groups, none only for no undercut
C30_Partition ==
    Grouped =>
        /\ Len(undercuts) = 0 <=> Len(groups) = 0
        /\ Len(groups) <= Len(undercuts)
        /\ CountMembers(Len(groups)) = Len(undercuts)
        /\ \A i \in 1..Len(undercuts) :
              Cardinality({g \in 1..Len(groups) :
                  \E m \in 1..Len(groups[g]) :
                      groups[g][m].face_id = undercuts[i].face_id}) = 1
        /\ \A g \in 1..Len(groups) :
              /\ Len(groups[g]) >= 1
              /\ \A m \in 1..Len(groups[g]) :
                    \E i \in 1..Len(undercuts) :
                        undercuts[i].face_id = groups[g][m].face_id
              /\ LET free == (1..Len(undercuts)) \ TakenBy(g - 1)
                 IN  /\ PositionOf(groups[g][1].face_id) \in free
                     /\ \A i \in free : PositionOf(groups[g][1].face_id) <= i

\* three undercuts in two groups, the second group seeded by the last one
\* after the first seed took the one in between
C30_Witness ==
    /\ Grouped
    /\ Len(undercuts) = 3
    /\ Len(groups) = 2
    /\ FaceIdsOf(groups)
          = << <<undercuts[1].face_id, undercuts[3].face_id>>,
               <<undercuts[2].face_id>> >>

\* the average of the normals' components along the coordinate c
AvgAlong(normals, c) ==
    RoundRat(FSum([k \in 1..Len(normals) |-> normals[k][c]]), Len(normals))

\* the cavity-side and core-side rules read along the coordinate c
CavitySideAlong(r, c) ==
    /\ r.center[c] > parting_z
    /\ 10 * AvgAlong(r.normals, c) < -NormalOne
    /\ r.avg_draft < 45 * AngleOne

CoreSideAlong(r, c) ==
    /\ r.center[c] < parting_z
    /\ 10 * AvgAlong(r.normals, c) > NormalOne
    /\ r.avg_draft < 45 * AngleOne

\* C28 as stated: for each of the three opening axes detect_undercuts
\* decides the cavity-side and core-side undercuts from the centroid's
\* coordinate along the opening axis against the parting coordinate and from
\* the average normal's component along the opening axis
C28_RulesAlongOpeningAxis ==
    pc = "detected" =>
        LET c == AxisOf(DefaultDir(opening_dir))
        IN  \A j \in 1..Len(undercuts) :
                LET r == face_results[undercuts[j].face_id + 1]
                    kind == undercuts[j].reason[1]
                IN  /\ kind = "Cavity" <=> CavitySideAlong(r, c)
                    /\ kind = "Core" <=>
                          (~CavitySideAlong(r, c) /\ CoreSideAlong(r, c))

\* C21: a run of main() is ended early only by an input that is missing, of
\* an unsupported format or unreadable, and then before any face is analysed;
\* a run that has read its input goes on through every stage to the report
C21_OnlyInputFailureAborts ==
    pc = "aborted" =>
        /\ input_file.kind # "solid"
        /\ error \in {"SystemExit", "ValueError"}
        /\ face_results = <<>>

====
